---- MODULE Spec2Model ----
(***************************************************************************)
(* A model of the invoice extraction engine (aniruddha1295/PDF_Extractor). *)
(*                                                                         *)
(* Python text is modelled as a sequence of one-character strings, so that *)
(* trimming, case folding, substring search and number parsing are         *)
(* computed character by character, as the code computes them.  Decimal    *)
(* values are modelled as sign / coefficient / exponent triples, the       *)
(* representation of decimal.Decimal.                                      *)
(***************************************************************************)
EXTENDS Integers, Sequences, FiniteSets, TLC

VARIABLES
    pc,                 \* position of the operation under study
    df,                 \* classify_rows: the decoded table (rows in order)
    summary_keywords,   \* classify_rows: the summary keyword list
    exclude_keywords,   \* classify_rows: the exclude keyword list
    classified,         \* classify_rows result / detect_grand_total input
    grand_total,        \* detect_grand_total outcome
    invoice,            \* the ExtractedInvoice under validation
    validation,         \* validate_invoice outcome
    vendor_gst_in,      \* the vendor_gst value handed to ExtractedInvoice(...)
    construction,       \* ExtractedInvoice(...) outcome
    input,              \* the argument of the function or pipeline under study
    result,             \* what that function or pipeline has produced so far
    headers,            \* run_pipeline_*: the header dictionary
    built_items,        \* run_pipeline_*: the LineItem list handed to the assembler
    pdf,                \* run_pipeline_*: the document, "open" or "closed"
    written             \* run_pipeline_*: the record handed to write_excel

vars == <<pc, df, summary_keywords, exclude_keywords, classified, grand_total,
          invoice, validation, vendor_gst_in, construction, input, result,
          headers, built_items, pdf, written>>

(***************************************************************************)
(* Bounds of the model.                                                    *)
(***************************************************************************)
MaxRows == 2

MaxKeywords == 2

MaxClassified == 3

MaxItems == 2

\* Blanks put before and after a vendor_gst text.
MaxPad == 1

\* How far the length of a vendor_gst text may be from GSTIN_LENGTH.
MaxLengthSlack == 1

(***************************************************************************)
(* Text helpers (Python str methods).                                      *)
(***************************************************************************)
UpperLetters == <<"A","B","C","D","E","F","G","H","I","J","K","L","M",
                  "N","O","P","Q","R","S","T","U","V","W","X","Y","Z">>

LowerLetters == <<"a","b","c","d","e","f","g","h","i","j","k","l","m",
                  "n","o","p","q","r","s","t","u","v","w","x","y","z">>

Digits == <<"0","1","2","3","4","5","6","7","8","9">>

Whitespace == {" ", "\t", "\n"}

SetMin(S) == CHOOSE x \in S : \A y \in S : x <= y

SetMax(S) == CHOOSE x \in S : \A y \in S : x >= y

Range(s) == {s[i] : i \in 1..Len(s)}

LowerChar(c) ==
    IF \E i \in 1..26 : UpperLetters[i] = c
    THEN LowerLetters[CHOOSE i \in 1..26 : UpperLetters[i] = c]
    ELSE c

UpperChar(c) ==
    IF \E i \in 1..26 : LowerLetters[i] = c
    THEN UpperLetters[CHOOSE i \in 1..26 : LowerLetters[i] = c]
    ELSE c

\* str.lower()
Lower(s) == [i \in 1..Len(s) |-> LowerChar(s[i])]

\* str.upper()
Upper(s) == [i \in 1..Len(s) |-> UpperChar(s[i])]

\* str.strip()
Strip(s) ==
    LET keep == {i \in 1..Len(s) : s[i] \notin Whitespace}
    IN  IF keep = {} THEN <<>> ELSE SubSeq(s, SetMin(keep), SetMax(keep))

\* needle in hay
Contains(hay, needle) ==
    \E i \in 0..(Len(hay) - Len(needle)) :
        SubSeq(hay, i + 1, i + Len(needle)) = needle

\* str.replace(c, "") for a set of single characters
RemoveChars(s, C) == SelectSeq(s, LAMBDA c : c \notin C)

\* Series.get(key, default) / dict.get(key, default)
Get(row, key, default) == IF key \in DOMAIN row THEN row[key] ELSE default

(***************************************************************************)
(* row_classifier.py                                                       *)
(***************************************************************************)
ROW_TYPE_LINE_ITEM == "line_item"

ROW_TYPE_SUMMARY == "summary"

ROW_TYPE_TOTAL == "total"

\* df.iterrows(): (index label, row) pairs in table order; the table comes
\* from extract_table, which resets the index to 0..n-1.
iterrows(d) == [i \in 1..Len(d) |-> <<i - 1, d[i]>>]

\* A classifier that consults the summary keywords first.
row_type_of_summary_first(row, summary_kw, exclude_kw) ==
    LET desc == Lower(Strip(Get(row, "description", <<>>)))
    IN  IF \E k \in 1..Len(summary_kw) : Contains(desc, Lower(summary_kw[k]))
        THEN ROW_TYPE_SUMMARY
        ELSE IF \E k \in 1..Len(exclude_kw) : Contains(desc, Lower(exclude_kw[k]))
             THEN ROW_TYPE_TOTAL
             ELSE ROW_TYPE_LINE_ITEM

\* The tag of one row: the body of the loop of classify_rows.
row_type_of(row, summary_kw, exclude_kw) ==
    LET desc == Lower(Strip(Get(row, "description", <<>>)))
    IN  IF \E k \in 1..Len(exclude_kw) : Contains(desc, Lower(exclude_kw[k]))
        THEN ROW_TYPE_TOTAL
        ELSE IF \E k \in 1..Len(summary_kw) : Contains(desc, Lower(summary_kw[k]))
             THEN ROW_TYPE_SUMMARY
             ELSE ROW_TYPE_LINE_ITEM

\* A classifier that leaves the summary rows out of its result.
classify_rows_drop_summary(d, summary_kw, exclude_kw) ==
    LET it == iterrows(d)
        all == [i \in 1..Len(it) |->
                  [idx |-> it[i][1],
                   row_type |-> row_type_of(it[i][2], summary_kw, exclude_kw),
                   row |-> it[i][2]]]
    IN  SelectSeq(all, LAMBDA e : e.row_type # ROW_TYPE_SUMMARY)

\* classify_rows(df, summary_keywords, exclude_keywords): a list of
\* (row_index, row_type, row_data) entries.
classify_rows(d, summary_kw, exclude_kw) ==
    LET it == iterrows(d)
    IN  [i \in 1..Len(it) |->
            [idx |-> it[i][1],
             row_type |-> row_type_of(it[i][2], summary_kw, exclude_kw),
             row |-> it[i][2]]]

(***************************************************************************)
(* decimal.Decimal: a value is [kind, sign, coef, exp]; a finite value is  *)
(* (-1)^sign * coef * 10^exp.  Coefficients stay far below the context     *)
(* precision of 28 digits in every input the model draws, so no operation  *)
(* but quantize has to round or to check the precision.                    *)
(***************************************************************************)
Dec(sign, coef, exp) == [kind |-> "fin", sign |-> sign, coef |-> coef, exp |-> exp]

DecInf(sign) == [kind |-> "inf", sign |-> sign, coef |-> 0, exp |-> 0]

DecNaN(sign, signaling) ==
    [kind |-> IF signaling THEN "snan" ELSE "nan", sign |-> sign, coef |-> 0, exp |-> 0]

\* The value a failed Decimal operation stands for: decimal.InvalidOperation.
InvalidOperation == [kind |-> "InvalidOperation", sign |-> 0, coef |-> 0, exp |-> 0]

\* Decimal("0.00")
ZERO_00 == Dec(0, 0, -2)

RECURSIVE Pow10(_)
Pow10(n) == IF n <= 0 THEN 1 ELSE 10 * Pow10(n - 1)

RECURSIVE NumDigits(_)
NumDigits(n) == IF n < 10 THEN 1 ELSE 1 + NumDigits(n \div 10)

\* The signed coefficient of finite d at exponent e (e <= d.exp).
ScaledInt(d, e) == (IF d.sign = 1 THEN -1 ELSE 1) * d.coef * Pow10(d.exp - e)

MinExp(a, b) == IF a.exp <= b.exp THEN a.exp ELSE b.exp

\* A finite Decimal from a signed coefficient; a zero result of an addition
\* is negative only when both operands are negative.
FromInt(n, e, negzero) ==
    Dec(IF n < 0 \/ (n = 0 /\ negzero) THEN 1 ELSE 0, IF n < 0 THEN -n ELSE n, e)

\* a + b for finite operands
DecAdd(a, b) ==
    LET e == MinExp(a, b)
    IN  FromInt(ScaledInt(a, e) + ScaledInt(b, e), e, a.sign = 1 /\ b.sign = 1)

\* -a
DecNeg(a) == [a EXCEPT !.sign = 1 - a.sign]

\* a - b for finite operands
DecSub(a, b) == DecAdd(a, DecNeg(b))

\* abs(a)
DecAbs(a) == [a EXCEPT !.sign = 0]

\* a > b for finite operands
DecGt(a, b) ==
    LET e == MinExp(a, b) IN ScaledInt(a, e) > ScaledInt(b, e)

\* a == b: numeric equality; a NaN equals nothing, itself included.
DecEq(a, b) ==
    CASE a.kind = "fin" /\ b.kind = "fin" ->
            LET e == MinExp(a, b) IN ScaledInt(a, e) = ScaledInt(b, e)
      [] a.kind = "inf" /\ b.kind = "inf" -> a.sign = b.sign
      [] OTHER -> FALSE

ROUND_HALF_EVEN == "ROUND_HALF_EVEN"

ROUND_HALF_UP == "ROUND_HALF_UP"

\* d.quantize(Decimal("0.01"), rounding=rounding)
Quantize2(d, rounding) ==
    CASE d.kind = "nan" -> d
      [] d.kind \in {"inf", "snan"} -> InvalidOperation
      [] d.kind = "fin" /\ d.exp >= -2 ->
            IF d.coef # 0 /\ NumDigits(d.coef) + d.exp + 2 > 28
            THEN InvalidOperation
            ELSE Dec(d.sign, IF d.coef = 0 THEN 0 ELSE d.coef * Pow10(d.exp + 2), -2)
      [] OTHER ->
            LET unit == Pow10(-2 - d.exp)
                q == d.coef \div unit
                r == d.coef % unit
                up == IF rounding = ROUND_HALF_UP
                      THEN 2 * r >= unit
                      ELSE 2 * r > unit \/ (2 * r = unit /\ q % 2 = 1)
            IN  Dec(d.sign, IF up THEN q + 1 ELSE q, -2)

(***************************************************************************)
(* Decimal(text): the constructor's grammar                                *)
(*   [sign] ( digits [. digits] [E [sign] digits] | Inf[inity] | [s]NaN )  *)
(* with surrounding whitespace and underscores dropped, letters matched    *)
(* in either case.  A text outside the grammar gives InvalidOperation.     *)
(***************************************************************************)
DigitSet == Range(Digits)

DigitVal(c) == (CHOOSE i \in 1..10 : Digits[i] = c) - 1

AllDigits(s) == \A i \in 1..Len(s) : s[i] \in DigitSet

\* The numeric alternative of the grammar, read left to right.  scan.st is
\* the part just read: "start", "int" (integer digits), "dot" (a point
\* with no digit before or after it yet), "frac" (after the point), "e",
\* "esign", "exp" (exponent digits) or "bad".
ScanStart == [st |-> "start", coef |-> 0, nfrac |-> 0, eneg |-> FALSE, eval |-> 0]

ScanStep(scan, c) ==
    CASE c \in DigitSet /\ scan.st \in {"start", "int"} ->
            [scan EXCEPT !.st = "int", !.coef = 10 * @ + DigitVal(c)]
      [] c \in DigitSet /\ scan.st \in {"dot", "frac"} ->
            [scan EXCEPT !.st = "frac", !.coef = 10 * @ + DigitVal(c), !.nfrac = @ + 1]
      [] c \in DigitSet /\ scan.st \in {"e", "esign", "exp"} ->
            [scan EXCEPT !.st = "exp", !.eval = 10 * @ + DigitVal(c)]
      [] c = "." /\ scan.st = "start" -> [scan EXCEPT !.st = "dot"]
      [] c = "." /\ scan.st = "int" -> [scan EXCEPT !.st = "frac"]
      [] c \in {"E", "e"} /\ scan.st \in {"int", "frac"} -> [scan EXCEPT !.st = "e"]
      [] c \in {"+", "-"} /\ scan.st = "e" ->
            [scan EXCEPT !.st = "esign", !.eneg = (c = "-")]
      [] OTHER -> [scan EXCEPT !.st = "bad"]

RECURSIVE ScanNumber(_, _)
ScanNumber(s, scan) ==
    IF s = <<>> THEN scan ELSE ScanNumber(Tail(s), ScanStep(scan, Head(s)))

\* [s]NaN followed by optional digits, letters already upper-cased.
IsNaNText(ubody, from) ==
    /\ Len(ubody) >= from + 2
    /\ SubSeq(ubody, from, from + 2) = <<"N","A","N">>
    /\ AllDigits(SubSeq(ubody, from + 3, Len(ubody)))

\* The text after the sign, with the sign it carried.
DecimalBody(sign, body) ==
    LET scan == ScanNumber(body, ScanStart)
        ubody == Upper(body)
    IN  CASE scan.st \in {"int", "frac", "exp"} ->
                Dec(sign, scan.coef,
                    (IF scan.eneg THEN -scan.eval ELSE scan.eval) - scan.nfrac)
          [] scan.st = "bad"
                /\ ubody \in {<<"I","N","F">>, <<"I","N","F","I","N","I","T","Y">>} ->
                DecInf(sign)
          [] scan.st = "bad" /\ IsNaNText(ubody, 1) -> DecNaN(sign, FALSE)
          [] scan.st = "bad" /\ ubody[1] = "S" /\ IsNaNText(ubody, 2) ->
                DecNaN(sign, TRUE)
          [] OTHER -> InvalidOperation

DecimalOf(text) ==
    LET s0 == RemoveChars(Strip(text), {"_"})
    IN  IF s0 # <<>> /\ s0[1] \in {"-", "+"}
        THEN DecimalBody(IF s0[1] = "-" THEN 1 ELSE 0, Tail(s0))
        ELSE DecimalBody(0, s0)

(***************************************************************************)
(* utils.py                                                                *)
(***************************************************************************)
\* Python's None, where a text is expected.
None == <<"<None>">>

\* Characters outside ASCII are written as named tokens.
EM_DASH == "<em-dash>"

EN_DASH == "<en-dash>"

RUPEE == "<rupee>"

CurrencySymbols == {RUPEE, "$", "<euro>", "<pound>", "<yen>"}

\* The placeholder texts parse_decimal maps to zero (utils.py line 29).
DecimalPlaceholders ==
    { <<>>, <<EM_DASH>>, <<"-">>, <<EN_DASH>>,
      <<"N","/","A">>, <<"n","/","a">>, <<"N","A">>, <<"n","a">>,
      <<"N","o","n","e">>, <<"n","o","n","e">> }

\* re.sub(r'[currency symbols]', '', text).strip()  (utils.py line 33)
StripCurrency(t) == Strip(RemoveChars(t, CurrencySymbols))

\* "(50.00)" becomes "-50.00": re.match(r'^\((.+)\)$', text) (lines 36-38)
ParenToMinus(t) ==
    IF /\ Len(t) >= 3
       /\ t[1] = "(" /\ t[Len(t)] = ")"
       /\ "\n" \notin Range(SubSeq(t, 2, Len(t) - 1))
    THEN <<"-">> \o SubSeq(t, 2, Len(t) - 1)
    ELSE t

\* Commas, then percent signs, removed; then strip (lines 41-44)
StripSeparators(t) == Strip(RemoveChars(RemoveChars(t, {","}), {"%"}))

\* try: Decimal(text) except (InvalidOperation, ValueError): zero (lines 47-51)
DecimalOrZero(t) ==
    LET d == DecimalOf(t) IN IF d = InvalidOperation THEN ZERO_00 ELSE d

\* A parse_decimal that leaves the thousands separators in the text.
parse_decimal_keep_commas(text) ==
    IF text = None THEN ZERO_00
    ELSE IF Strip(text) \in DecimalPlaceholders THEN ZERO_00
    ELSE DecimalOrZero(Strip(RemoveChars(ParenToMinus(StripCurrency(Strip(text))), {"%"})))

\* parse_decimal(text)
parse_decimal(text) ==
    IF text = None THEN ZERO_00
    ELSE IF Strip(text) \in DecimalPlaceholders THEN ZERO_00
    ELSE DecimalOrZero(StripSeparators(ParenToMinus(StripCurrency(Strip(text)))))

\* The placeholder texts parse_percentage maps to zero (utils.py line 68).
PercentagePlaceholders ==
    { <<>>, <<EM_DASH>>, <<"-">>, <<EN_DASH>>, <<"N","/","A">>, <<"n","/","a">> }

\* parse_percentage(text)
parse_percentage(text) ==
    IF text = None THEN ZERO_00
    ELSE IF Strip(text) \in PercentagePlaceholders THEN ZERO_00
    ELSE DecimalOrZero(Strip(RemoveChars(Strip(text), {"%"})))

\* The decimal digits of a natural number, most significant first.
RECURSIVE DigitsOf(_)
DigitsOf(n) ==
    IF n < 10 THEN <<Digits[n + 1]>> ELSE Append(DigitsOf(n \div 10), Digits[(n % 10) + 1])

Zeros(n) == [i \in 1..n |-> "0"]

\* The exponent suffix of str(Decimal): "" or E followed by a signed number.
ExponentText(e) ==
    IF e = 0 THEN <<>>
    ELSE <<"E", IF e < 0 THEN "-" ELSE "+">> \o DigitsOf(IF e < 0 THEN -e ELSE e)

\* str(d) for a finite d, without its sign (decimal.Decimal.__str__).
FiniteText(d) ==
    LET digits == DigitsOf(d.coef)
        leftdigits == d.exp + Len(digits)
        dotplace == IF d.exp <= 0 /\ leftdigits > -6 THEN leftdigits ELSE 1
        body == IF dotplace <= 0 THEN <<"0", ".">> \o Zeros(-dotplace) \o digits
                ELSE IF dotplace >= Len(digits)
                THEN digits \o Zeros(dotplace - Len(digits))
                ELSE SubSeq(digits, 1, dotplace) \o <<".">>
                     \o SubSeq(digits, dotplace + 1, Len(digits))
    IN  body \o ExponentText(leftdigits - dotplace)

\* str(d)
DecStr(d) ==
    (IF d.sign = 1 THEN <<"-">> ELSE <<>>) \o
    CASE d.kind = "inf" -> <<"I","n","f","i","n","i","t","y">>
      [] d.kind = "nan" -> <<"N","a","N">>
      [] d.kind = "snan" -> <<"s","N","a","N">>
      [] OTHER -> FiniteText(d)

(***************************************************************************)
(* summary_detector.py                                                     *)
(***************************************************************************)
\* An outcome of detect_grand_total: the pair returned, or the error raised.
TotalOutcome(kind, raw, rounded) == [kind |-> kind, raw |-> raw, rounded |-> rounded]

NoTotal == TotalOutcome("none", ZERO_00, ZERO_00)

\* A detector that keeps the last TOTAL row instead of stopping at the first.
detect_grand_total_last(classified_rows) ==
    LET totals == {i \in 1..Len(classified_rows) :
                      classified_rows[i].row_type = ROW_TYPE_TOTAL}
        total_row == classified_rows[SetMax(totals)].row
        grand_total_raw == parse_decimal(Strip(Get(total_row, "total", <<"0">>)))
        grand_total_rounded == Quantize2(grand_total_raw, ROUND_HALF_EVEN)
    IN  IF totals = {} THEN TotalOutcome("MissingFieldError", ZERO_00, ZERO_00)
        ELSE IF grand_total_rounded = InvalidOperation
             THEN TotalOutcome("InvalidOperation", ZERO_00, ZERO_00)
             ELSE TotalOutcome("ok", grand_total_raw, grand_total_rounded)

\* detect_grand_total(classified_rows); quantize is called without a
\* rounding argument, so it rounds as the default context does: half-even.
detect_grand_total(classified_rows) ==
    LET totals == {i \in 1..Len(classified_rows) :
                      classified_rows[i].row_type = ROW_TYPE_TOTAL}
        total_row == classified_rows[SetMin(totals)].row
        raw_total_str == Strip(Get(total_row, "total", <<"0">>))
        grand_total_raw == parse_decimal(raw_total_str)
        grand_total_rounded == Quantize2(grand_total_raw, ROUND_HALF_EVEN)
    IN  IF totals = {} THEN TotalOutcome("MissingFieldError", ZERO_00, ZERO_00)
        ELSE IF grand_total_rounded = InvalidOperation
             THEN TotalOutcome("InvalidOperation", ZERO_00, ZERO_00)
             ELSE TotalOutcome("ok", grand_total_raw, grand_total_rounded)

(***************************************************************************)
(* schema.py: ExtractedInvoice.validate_gst, run on vendor_gst whenever an *)
(* ExtractedInvoice is constructed.                                        *)
(***************************************************************************)
UNREGISTERED == <<"U","N","R","E","G","I","S","T","E","R","E","D">>

\* The repetition count of the pattern r'^[0-9A-Z]{15}$'
GSTIN_LENGTH == 15

GstinChars == Range(Digits) \cup Range(UpperLetters)

\* An outcome of ExtractedInvoice(...): the vendor_gst the record holds, or
\* the error raised.
Constructed(v) == [kind |-> "ok", vendor_gst |-> v]

GSTValidationError == [kind |-> "GSTValidationError", vendor_gst |-> <<>>]

\* A validator whose pattern lacks the closing anchor: r'^[0-9A-Z]{15}'
validate_gst_unanchored(v) ==
    LET u == Upper(Strip(v))
    IN  IF u = UNREGISTERED THEN Constructed(u)
        ELSE IF ~(/\ Len(u) >= GSTIN_LENGTH
                  /\ \A i \in 1..GSTIN_LENGTH : u[i] \in GstinChars)
             THEN GSTValidationError
             ELSE Constructed(u)

\* validate_gst(cls, v); the text was stripped, so the pattern's $ can only
\* match at its end.
validate_gst(v) ==
    LET u == Upper(Strip(v))
    IN  IF u = UNREGISTERED THEN Constructed(u)
        ELSE IF ~(/\ Len(u) = GSTIN_LENGTH
                  /\ \A i \in 1..Len(u) : u[i] \in GstinChars)
             THEN GSTValidationError
             ELSE Constructed(u)

(***************************************************************************)
(* validator.py.  An outcome is the error validate_invoice raises, with    *)
(* the data its message cites, or "ok" when it returns.                    *)
(***************************************************************************)
\* TOLERANCE = Decimal("0.02")
TOLERANCE == Dec(0, 2, -2)

Outcome(kind, field, index, check, diff) ==
    [kind |-> kind, field |-> field, index |-> index, check |-> check, diff |-> diff]

Passed == Outcome("ok", "", -1, "", ZERO_00)

MissingFieldError(field) == Outcome("MissingFieldError", field, -1, "", ZERO_00)

NoLineItemsError == Outcome("NoLineItemsError", "", -1, "", ZERO_00)

\* check names the identity: "price", "tax" or "grand_total".
ArithmeticMismatchError(index, check, diff) ==
    Outcome("ArithmeticMismatchError", "", index, check, diff)

\* not value or not str(value).strip()
IsBlank(value) == value = <<>> \/ Strip(value) = <<>>

\* The required fields, in the order the dictionary lists them.
RequiredFields ==
    <<"invoice_number", "vendor_name", "vendor_gst", "customer_name", "state">>

\* _check_required_fields(invoice)
_check_required_fields(inv) ==
    LET blank == {k \in 1..Len(RequiredFields) : IsBlank(inv[RequiredFields[k]])}
    IN  IF blank = {} THEN Passed
        ELSE MissingFieldError(RequiredFields[SetMin(blank)])

\* An identity check that already fails at the tolerance itself.
CheckIdentityStrict(expected, actual, index, check) ==
    LET diff == DecAbs(DecSub(expected, actual))
    IN  IF DecGt(diff, TOLERANCE) \/ DecEq(diff, TOLERANCE)
        THEN Outcome("ArithmeticMismatchError", "", index, check, diff)
        ELSE Outcome("ok", "", -1, "", ZERO_00)

\* One identity: abs(expected - actual) > TOLERANCE raises.
CheckIdentity(expected, actual, index, check) ==
    LET diff == DecAbs(DecSub(expected, actual))
    IN  IF DecGt(diff, TOLERANCE)
        THEN ArithmeticMismatchError(index, check, diff)
        ELSE Passed

\* The two identities of one item, the first failure winning.
FirstFailure(first, second) == IF first.kind # "ok" THEN first ELSE second

\* An item check that tries the tax identity before the price identity.
_validate_line_item_arithmetic_tax_first(item, index, tax_type) ==
    IF tax_type = "igst"
    THEN FirstFailure(
            CheckIdentity(DecAdd(DecAdd(item.net_value, item.igst_amount),
                                 item.cess_amount),
                          item.total, index, "tax"),
            CheckIdentity(DecSub(item.gross_value, item.discount), item.total,
                          index, "price"))
    ELSE FirstFailure(
            CheckIdentity(DecAdd(DecAdd(item.net_value, item.cgst_amount),
                                 item.sgst_amount),
                          item.total, index, "tax"),
            CheckIdentity(DecSub(item.gross_value, item.discount), item.net_value,
                          index, "price"))

\* _validate_line_item_arithmetic(item, index, tax_type)
_validate_line_item_arithmetic(item, index, tax_type) ==
    IF tax_type = "igst"
    THEN FirstFailure(
            CheckIdentity(DecSub(item.gross_value, item.discount), item.total,
                          index, "price"),
            CheckIdentity(DecAdd(DecAdd(item.net_value, item.igst_amount),
                                 item.cess_amount),
                          item.total, index, "tax"))
    ELSE FirstFailure(
            CheckIdentity(DecSub(item.gross_value, item.discount), item.net_value,
                          index, "price"),
            CheckIdentity(DecAdd(DecAdd(item.net_value, item.cgst_amount),
                                 item.sgst_amount),
                          item.total, index, "tax"))

\* sum(item.total for item in items): the built-in sum starts from int 0.
RECURSIVE SumTotals(_)
SumTotals(items) ==
    IF items = <<>> THEN Dec(0, 0, 0)
    ELSE DecAdd(SumTotals(SubSeq(items, 1, Len(items) - 1)), items[Len(items)].total)

\* A grand-total check against the rounded total.
_validate_grand_total_rounded(inv) ==
    CheckIdentity(SumTotals(inv.line_items), inv.grand_total_rounded, -1, "grand_total")

\* _validate_grand_total(invoice)
_validate_grand_total(inv) ==
    CheckIdentity(SumTotals(inv.line_items), inv.grand_total_raw, -1, "grand_total")

\* The per-item loop of validate_invoice: the first item that raises.
ValidateItems(inv) ==
    LET bad == {i \in 1..Len(inv.line_items) :
                   _validate_line_item_arithmetic(inv.line_items[i], i - 1,
                                                  inv.tax_type).kind # "ok"}
    IN  IF bad = {} THEN Passed
        ELSE _validate_line_item_arithmetic(inv.line_items[SetMin(bad)],
                                            SetMin(bad) - 1, inv.tax_type)

\* A validator that counts the line items before it looks at the headers.
validate_invoice_count_first(inv) ==
    IF Len(inv.line_items) = 0 THEN NoLineItemsError
    ELSE IF _check_required_fields(inv).kind # "ok" THEN _check_required_fields(inv)
    ELSE IF ValidateItems(inv).kind # "ok" THEN ValidateItems(inv)
    ELSE _validate_grand_total(inv)

\* validate_invoice(invoice)
validate_invoice(inv) ==
    IF _check_required_fields(inv).kind # "ok" THEN _check_required_fields(inv)
    ELSE IF Len(inv.line_items) = 0 THEN NoLineItemsError
    ELSE IF ValidateItems(inv).kind # "ok" THEN ValidateItems(inv)
    ELSE _validate_grand_total(inv)

(***************************************************************************)
(* Inputs of the row classifier and of the grand-total detector.           *)
(***************************************************************************)
Pizza == <<"P","i","z","z","a">>

TotalValue == <<"T","o","t","a","l"," ","V","a","l","u","e">>

PaddedTotalValue == <<" ","T","O","T","A","L"," ","v","a","l","u","e"," ">>

ItemsTotal == <<"I","t","e","m","(","s",")"," ","T","o","t","a","l">>

ItemsTotalValue == ItemsTotal \o <<" ","V","a","l","u","e">>

Descriptions == {Pizza, TotalValue, PaddedTotalValue, ItemsTotal, ItemsTotalValue}

KeywordSamples ==
    { <<"t","o","t","a","l"," ","v","a","l","u","e">>,
      <<"I","t","e","m","(","s",")"," ","T","o","t","a","l">>,
      <<"t","o","t","a","l">> }

Cell_94_50 == <<"9","4",".","5","0">>

Cell_94_125 == <<"9","4",".","1","2","5">>

Cell_0_125 == <<" ","0",".","1","2","5">>

Cell_0_135 == <<RUPEE,"0",".","1","3","5">>

Cell_neg_0_125 == <<"(","0",".","1","2","5",")">>

Cell_Inf == <<"I","n","f">>

TotalCells == {Cell_94_50, Cell_94_125, Cell_0_125, Cell_0_135, Cell_neg_0_125,
               <<"-">>, Cell_Inf}

\* Table rows: named cells; a row of a table without a description column
\* has no such cell.
ClassifyRowSamples ==
    {[description |-> d, total |-> Cell_94_50] : d \in Descriptions}
        \cup {[total |-> Cell_94_50]}

DetectRowSamples ==
    {[description |-> TotalValue, total |-> c] : c \in TotalCells}
        \cup {[description |-> TotalValue]}

ROW_TYPES == {ROW_TYPE_LINE_ITEM, ROW_TYPE_SUMMARY, ROW_TYPE_TOTAL}

\* The classified sequence with tags t and rows r.
ClassifiedOf(t, r) ==
    [i \in 1..Len(t) |-> [idx |-> i - 1, row_type |-> t[i], row |-> r[i]]]

(***************************************************************************)
(* Inputs of the validator: ExtractedInvoice records as the schema lets    *)
(* them be built (vendor_gst always passes validate_gst; amounts finite).  *)
(***************************************************************************)
\* n hundredths / n thousandths as a Decimal
Cents(n) == Dec(IF n < 0 THEN 1 ELSE 0, IF n < 0 THEN -n ELSE n, -2)

Mills(n) == Dec(IF n < 0 THEN 1 ELSE 0, IF n < 0 THEN -n ELSE n, -3)

\* schema.LineItem; the rate fields, which no check reads, are left out.
LineItem(gross, discount, net, cgst, sgst, igst, cess, total) ==
    [description |-> Pizza, gross_value |-> gross, discount |-> discount,
     net_value |-> net, cgst_amount |-> cgst, sgst_amount |-> sgst,
     igst_amount |-> igst, cess_amount |-> cess, total |-> total]

\* gross 100.00 and discount 10.00, amounts in hundredths
ItemOf(net, cgst, sgst, igst, cess, total) ==
    LineItem(Cents(10000), Cents(1000), Cents(net), Cents(cgst), Cents(sgst),
             Cents(igst), Cents(cess), Cents(total))

ItemSamples ==
    { \* consistent in CGST/SGST mode (the "Pizza" row), with a stray IGST amount
      ItemOf(9000, 225, 225, 500, 0, 9450),
      \* price identity off by 0.02, 0.03 and -0.03 in CGST/SGST mode
      ItemOf(9002, 225, 225, 0, 0, 9452),
      ItemOf(9003, 225, 225, 0, 0, 9453),
      ItemOf(8997, 225, 225, 0, 0, 9447),
      \* tax identity off by 0.03 in CGST/SGST mode
      ItemOf(9000, 225, 225, 0, 0, 9453),
      \* both identities off, in either mode
      ItemOf(9003, 225, 225, 0, 0, 9459),
      \* price identity off by 0.025 in CGST/SGST mode
      LineItem(Cents(10000), Cents(1000), Mills(90025), Cents(225), Cents(225),
               Cents(0), Cents(0), Mills(94525)),
      \* consistent in both modes
      ItemOf(9000, 0, 0, 0, 0, 9000),
      \* consistent in IGST mode, with a stray CGST amount
      ItemOf(8550, 500, 0, 447, 3, 9000),
      \* price identity off by 0.02 and 0.03 in IGST mode
      ItemOf(8552, 0, 0, 450, 0, 9002),
      ItemOf(8553, 0, 0, 450, 0, 9003),
      \* tax identity off by 0.03 in IGST mode
      ItemOf(8550, 0, 0, 450, 3, 9000) }

TaxTypes == {"cgst_sgst", "igst"}

NonBlank == <<"X">>

SampleGSTIN == <<"2","9","A","B","C","D","E","1","2","3","4","F","1","Z","5">>

\* grand_total_raw minus the sum of the line-item totals
TotalDeltas == {Cents(0), Cents(2), Cents(3), Cents(-3), Mills(25)}

\* The header texts <<invoice_number, vendor_name, customer_name, state>>
HeaderSamples ==
    { <<NonBlank, NonBlank, NonBlank, NonBlank>>,
      <<NonBlank, NonBlank, <<>>, NonBlank>>,
      <<NonBlank, NonBlank, <<" ">>, NonBlank>>,
      <<NonBlank, NonBlank, NonBlank, <<>> >>,
      <<NonBlank, <<>>, NonBlank, NonBlank>>,
      << <<>>, NonBlank, <<>>, NonBlank>> }

\* The rounding each pipeline applies to the raw total: detect_grand_total
\* (ruled tables, CGST/SGST) and run_pipeline_flipkart (free text, IGST).
PipelineRounding(tax_type) ==
    IF tax_type = "igst" THEN ROUND_HALF_UP ELSE ROUND_HALF_EVEN

ExtractedInvoiceOf(h, items, tax_type, raw) ==
    [invoice_number |-> h[1], invoice_date |-> <<2024, 1, 31>>,
     vendor_name |-> h[2], vendor_gst |-> SampleGSTIN,
     customer_name |-> h[3], state |-> h[4], line_items |-> items,
     grand_total_raw |-> raw,
     grand_total_rounded |-> Quantize2(raw, PipelineRounding(tax_type)),
     tax_type |-> tax_type]

(***************************************************************************)
(* Inputs of the schema: vendor_gst texts.                                 *)
(***************************************************************************)
Blanks(n) == [i \in 1..n |-> " "]

\* n copies of c, with d at position p
Filled(n, c, p, d) == [i \in 1..n |-> IF i = p THEN d ELSE c]

GstLengths == (GSTIN_LENGTH - MaxLengthSlack)..(GSTIN_LENGTH + MaxLengthSlack)

GstFixedSamples ==
    { UNREGISTERED, Lower(UNREGISTERED), SubSeq(UNREGISTERED, 1, 11),
      UNREGISTERED \o <<"X">>, SampleGSTIN, Lower(SampleGSTIN),
      SubSeq(SampleGSTIN, 1, 14), <<>> }

(***************************************************************************)
(* States in which a component is not under study.                         *)
(***************************************************************************)
NoInvoice == [tax_type |-> "none"]

NoValidation == Outcome("none", "", -1, "", ZERO_00)

NoConstruction == [kind |-> "none", vendor_gst |-> <<>>]

IdleClassifier ==
    /\ df = <<>> /\ summary_keywords = <<>> /\ exclude_keywords = <<>>

IdleDetector == grand_total = NoTotal

IdleValidator == invoice = NoInvoice /\ validation = NoValidation

IdleSchema == vendor_gst_in = <<>> /\ construction = NoConstruction

NoResult == [kind |-> "none"]

IdleCall == input = <<>> /\ result = NoResult

\* No header dictionary yet
NoHeaders == <<>>

IdleAssembler ==
    headers = NoHeaders /\ built_items = <<>> /\ pdf = "none" /\ written = NoInvoice

(***************************************************************************)
(* SpecClassify: classify_rows applied to every table and keyword lists.   *)
(***************************************************************************)
InitClassify ==
    /\ pc = "classify"
    /\ IdleCall
    /\ \E n \in 0..MaxRows : df \in [1..n -> ClassifyRowSamples]
    /\ \E n \in 0..MaxKeywords : summary_keywords \in [1..n -> KeywordSamples]
    /\ \E n \in 0..MaxKeywords : exclude_keywords \in [1..n -> KeywordSamples]
    /\ classified = <<>>
    /\ IdleDetector /\ IdleValidator /\ IdleSchema
    /\ IdleAssembler

ClassifyRows ==
    /\ pc = "classify"
    /\ classified' = classify_rows(df, summary_keywords, exclude_keywords)
    /\ pc' = "classified"
    /\ UNCHANGED <<written, pdf, headers, built_items, input, result, df, summary_keywords, exclude_keywords, grand_total,
                   invoice, validation, vendor_gst_in, construction>>

NextClassify == ClassifyRows

SpecClassify == InitClassify /\ [][NextClassify]_vars

(***************************************************************************)
(* SpecDetect: detect_grand_total applied to every classified sequence.    *)
(***************************************************************************)
InitDetect ==
    /\ pc = "detect"
    /\ IdleCall
    /\ \E n \in 0..MaxClassified :
          \E t \in [1..n -> ROW_TYPES], r \in [1..n -> DetectRowSamples] :
              classified = ClassifiedOf(t, r)
    /\ grand_total = NoTotal
    /\ IdleClassifier /\ IdleValidator /\ IdleSchema
    /\ IdleAssembler

DetectGrandTotal ==
    /\ pc = "detect"
    /\ grand_total' = detect_grand_total(classified)
    /\ pc' = "detected"
    /\ UNCHANGED <<written, pdf, headers, built_items, input, result, df, summary_keywords, exclude_keywords, classified,
                   invoice, validation, vendor_gst_in, construction>>

NextDetect == DetectGrandTotal

SpecDetect == InitDetect /\ [][NextDetect]_vars

(***************************************************************************)
(* SpecValidate: validate_invoice applied to every record.                 *)
(***************************************************************************)
InitValidate ==
    /\ pc = "validate"
    /\ IdleCall
    /\ \E n \in 0..MaxItems :
          \E items \in [1..n -> ItemSamples], tax_type \in TaxTypes,
             h \in HeaderSamples, delta \in TotalDeltas :
              invoice = ExtractedInvoiceOf(h, items, tax_type,
                                           DecAdd(SumTotals(items), delta))
    /\ validation = NoValidation
    /\ classified = <<>>
    /\ IdleClassifier /\ IdleDetector /\ IdleSchema
    /\ IdleAssembler

\* A validator that overwrites a mismatching grand total with the sum.
ValidateInvoiceCorrecting ==
    /\ pc = "validate"
    /\ validation' = validate_invoice(invoice)
    /\ invoice' = IF validation'.check = "grand_total"
                  THEN [invoice EXCEPT !.grand_total_raw = SumTotals(invoice.line_items)]
                  ELSE invoice
    /\ pc' = "validated"
    /\ UNCHANGED <<written, pdf, headers, built_items, input, result, df, summary_keywords, exclude_keywords, classified, grand_total,
                   vendor_gst_in, construction>>

ValidateInvoice ==
    /\ pc = "validate"
    /\ validation' = validate_invoice(invoice)
    /\ pc' = "validated"
    /\ UNCHANGED <<written, pdf, headers, built_items, input, result, df, summary_keywords, exclude_keywords, classified, grand_total,
                   invoice, vendor_gst_in, construction>>

NextValidate == ValidateInvoice

SpecValidate == InitValidate /\ [][NextValidate]_vars

(***************************************************************************)
(* SpecSchema: ExtractedInvoice constructed with every vendor_gst text.    *)
(***************************************************************************)
InitSchema ==
    /\ pc = "construct"
    /\ IdleCall
    /\ \E left \in 0..MaxPad, right \in 0..MaxPad :
          \/ \E body \in GstFixedSamples :
                vendor_gst_in = Blanks(left) \o body \o Blanks(right)
          \/ \E n \in GstLengths, c \in {"A", "7"}, d \in {"A", "z", "-", " "} :
                \E p \in 1..n :
                    vendor_gst_in = Blanks(left) \o Filled(n, c, p, d) \o Blanks(right)
    /\ construction = NoConstruction
    /\ classified = <<>>
    /\ IdleClassifier /\ IdleDetector /\ IdleValidator
    /\ IdleAssembler

ConstructInvoice ==
    /\ pc = "construct"
    /\ construction' = validate_gst(vendor_gst_in)
    /\ pc' = "constructed"
    /\ UNCHANGED <<written, pdf, headers, built_items, input, result, df, summary_keywords, exclude_keywords, classified, grand_total,
                   invoice, validation, vendor_gst_in>>

NextSchema == ConstructInvoice

SpecSchema == InitSchema /\ [][NextSchema]_vars

(***************************************************************************)
(* Claims about the row classifier (checked under SpecClassify).           *)
(***************************************************************************)
\* The description of table row i as the classifier reads it.
DescOf(i) == Lower(Strip(Get(df[i], "description", <<>>)))

\* Row i's description contains keyword list kws' k-th keyword, as written
\* or lower-cased.
HasKeyword(i, kws) ==
    \E k \in 1..Len(kws) :
        Contains(DescOf(i), kws[k]) \/ Contains(DescOf(i), Lower(kws[k]))

\* C1: a row whose lower-cased, trimmed description contains an exclude
\* keyword is tagged TOTAL, also when it contains a summary keyword; it is
\* never tagged SUMMARY.
C1_ExcludeKeywordGivesTotal ==
    pc = "classified" =>
        \A i \in 1..Len(df) :
            HasKeyword(i, exclude_keywords) =>
                /\ classified[i].row_type = ROW_TYPE_TOTAL
                /\ classified[i].row_type # ROW_TYPE_SUMMARY

\* A classified row whose description holds an exclude and a summary keyword.
C1_Witness ==
    /\ pc = "classified"
    /\ \E i \in 1..Len(df) :
          /\ HasKeyword(i, exclude_keywords)
          /\ HasKeyword(i, summary_keywords)
          /\ classified[i].row_type = ROW_TYPE_TOTAL

\* C2: the result has one entry per table row, in table order; entry i
\* carries row i and its index, and exactly one of the three tags.
C2_NoRowDroppedOrReordered ==
    pc = "classified" =>
        /\ Len(classified) = Len(df)
        /\ \A i \in 1..Len(df) :
              /\ classified[i].row = df[i]
              /\ classified[i].idx = i - 1
              /\ classified[i].row_type \in
                    {ROW_TYPE_LINE_ITEM, ROW_TYPE_SUMMARY, ROW_TYPE_TOTAL}

\* A classified table of two different rows, one of them a summary row.
C2_Witness ==
    /\ pc = "classified"
    /\ Len(df) = 2 /\ df[1] # df[2]
    /\ classified[1].row_type = ROW_TYPE_SUMMARY
    /\ classified[2].row_type = ROW_TYPE_LINE_ITEM

(***************************************************************************)
(* Claims about the grand-total detector (checked under SpecDetect).       *)
(***************************************************************************)
\* The positions of the TOTAL-tagged rows of the detector's input.
TotalRows == {i \in 1..Len(classified) : classified[i].row_type = ROW_TYPE_TOTAL}

\* The normalized total-column cell of classified row i.
NormalizedTotalCell(i) == parse_decimal(Strip(Get(classified[i].row, "total", <<"0">>)))

\* C3: the raw total returned is the normalized total cell of the first
\* TOTAL-tagged row, and MissingFieldError is raised exactly when no row is
\* tagged TOTAL.
C3_FirstTotalRowWins ==
    pc = "detected" =>
        /\ grand_total.kind = "MissingFieldError" <=> TotalRows = {}
        /\ grand_total.kind = "ok" =>
              \E i \in TotalRows :
                  /\ \A j \in TotalRows : i <= j
                  /\ grand_total.raw = NormalizedTotalCell(i)

\* A detection over two TOTAL rows whose total cells differ.
C3_Witness ==
    /\ pc = "detected"
    /\ grand_total.kind = "ok"
    /\ \E i, j \in TotalRows :
          /\ i < j
          /\ NormalizedTotalCell(i) # NormalizedTotalCell(j)

\* C4: the rounded total is the raw total rounded to two places half-up.
C4_RoundedIsHalfUp ==
    (pc = "detected" /\ grand_total.kind = "ok") =>
        grand_total.rounded = Quantize2(grand_total.raw, ROUND_HALF_UP)

(***************************************************************************)
(* Claims about the validator (checked under SpecValidate).  The checks    *)
(* are restated on integers: every amount of the inputs has at most three  *)
(* decimal places, so an amount is a whole number of thousandths.          *)
(***************************************************************************)
InMills(d) == ScaledInt(d, -3)

AbsInt(n) == IF n < 0 THEN -n ELSE n

\* The tolerance, 0.02, in thousandths.
ToleranceMills == InMills(TOLERANCE)

\* |expected - actual| of the price identity of item i in the record's mode
PriceDiff(i) ==
    LET item == invoice.line_items[i]
    IN  AbsInt(InMills(item.gross_value) - InMills(item.discount)
               - InMills(IF invoice.tax_type = "igst" THEN item.total
                         ELSE item.net_value))

\* |expected - actual| of the tax identity of item i in the record's mode
TaxDiff(i) ==
    LET item == invoice.line_items[i]
    IN  AbsInt(InMills(item.net_value)
               + (IF invoice.tax_type = "igst"
                  THEN InMills(item.igst_amount) + InMills(item.cess_amount)
                  ELSE InMills(item.cgst_amount) + InMills(item.sgst_amount))
               - InMills(item.total))

RECURSIVE SumTotalMills(_)
SumTotalMills(items) ==
    IF items = <<>> THEN 0 ELSE InMills(Head(items).total) + SumTotalMills(Tail(items))

GrandDiff == AbsInt(SumTotalMills(invoice.line_items) - InMills(invoice.grand_total_raw))

RoundedDiff ==
    AbsInt(SumTotalMills(invoice.line_items) - InMills(invoice.grand_total_rounded))

\* The four violations, in the order of the contract.
BlankHeader ==
    \E f \in {"invoice_number", "vendor_name", "vendor_gst", "customer_name", "state"} :
        IsBlank(invoice[f])

NoItems == invoice.line_items = <<>>

ItemOff(i) == PriceDiff(i) > ToleranceMills \/ TaxDiff(i) > ToleranceMills

SomeItemOff == \E i \in 1..Len(invoice.line_items) : ItemOff(i)

FirstItemOff(i) == ItemOff(i) /\ \A j \in 1..(i - 1) : ~ItemOff(j)

GrandTotalOff == GrandDiff > ToleranceMills

\* validation is the per-item error of item i (index i - 1) on identity check
\* with difference mills thousandths.
IsItemError(i, check, mills) ==
    /\ validation.kind = "ArithmeticMismatchError"
    /\ validation.index = i - 1
    /\ validation.check = check
    /\ InMills(validation.diff) = mills

\* C5: the error raised is that of the first violated check in the order
\* (1) blank mandatory header, (2) no line items, (3) per-item arithmetic in
\* item order, (4) invoice-level total.
C5_FirstViolationInOrder ==
    pc = "validated" =>
        /\ BlankHeader => validation.kind = "MissingFieldError"
        /\ (~BlankHeader /\ NoItems) => validation.kind = "NoLineItemsError"
        /\ (~BlankHeader /\ ~NoItems /\ SomeItemOff) =>
              /\ validation.kind = "ArithmeticMismatchError"
              /\ validation.check \in {"price", "tax"}
              /\ FirstItemOff(validation.index + 1)
        /\ (~BlankHeader /\ ~NoItems /\ ~SomeItemOff /\ GrandTotalOff) =>
              /\ validation.kind = "ArithmeticMismatchError"
              /\ validation.check = "grand_total"

\* A record with a blank customer_name and no line item, validated.
C5_Witness ==
    /\ pc = "validated"
    /\ IsBlank(invoice.customer_name) /\ ~IsBlank(invoice.invoice_number)
    /\ NoItems
    /\ validation.kind = "MissingFieldError"
    /\ validation.field = "customer_name"

\* C6: in CGST/SGST mode the price identity of an item passes iff
\* |net - (gross - discount)| <= 0.02; a difference of 0.03 fails with an
\* ArithmeticMismatchError citing 0.03.
C6_ToleranceBoundary ==
    (pc = "validated" /\ invoice.tax_type = "cgst_sgst" /\ ~BlankHeader) =>
        \A i \in 1..Len(invoice.line_items) :
            (\A j \in 1..(i - 1) : ~ItemOff(j)) =>
                /\ PriceDiff(i) <= ToleranceMills =>
                      ~(validation.index = i - 1 /\ validation.check = "price")
                /\ PriceDiff(i) > ToleranceMills =>
                      IsItemError(i, "price", PriceDiff(i))
                /\ PriceDiff(i) = InMills(Cents(3)) =>
                      DecEq(validation.diff, Cents(3))

\* An item off by exactly 0.02 that passes, followed by one off by exactly
\* 0.03 that fails citing 0.03.
C6_Witness ==
    /\ pc = "validated" /\ invoice.tax_type = "cgst_sgst" /\ ~BlankHeader
    /\ Len(invoice.line_items) = 2
    /\ PriceDiff(1) = InMills(Cents(2)) /\ ~ItemOff(1)
    /\ PriceDiff(2) = InMills(Cents(3))
    /\ IsItemError(2, "price", 30)

C8_GrandTotalAgainstRaw ==
    (pc = "validated" /\ ~BlankHeader /\ ~NoItems /\ ~SomeItemOff) =>
        /\ validation.kind = "ok" <=> GrandDiff <= ToleranceMills
        /\ validation.kind # "ok" =>
              /\ validation.kind = "ArithmeticMismatchError"
              /\ validation.check = "grand_total"
              /\ InMills(validation.diff) = GrandDiff

\* A record whose rounded total is within tolerance of the sum while its raw
\* total is not, rejected.
C8_Witness ==
    /\ pc = "validated" /\ ~BlankHeader /\ ~NoItems /\ ~SomeItemOff
    /\ RoundedDiff <= ToleranceMills /\ GrandDiff > ToleranceMills
    /\ validation.kind = "ArithmeticMismatchError"
    /\ validation.check = "grand_total"

\* C9: validate_invoice leaves the record, line items included, as it was.
C9_RecordUnchanged == [][invoice' = invoice]_vars

\* A validation that ended with a grand-total error.
C9_Witness ==
    /\ pc = "validated"
    /\ validation.kind = "ArithmeticMismatchError"
    /\ validation.check = "grand_total"

(***************************************************************************)
(* Claims about the schema (checked under SpecSchema).                     *)
(***************************************************************************)
\* v is the sentinel or exactly 15 characters, each in 0-9 / A-Z.
IsGstinOrSentinel(v) ==
    \/ v = UNREGISTERED
    \/ /\ Len(v) = 15
       /\ \A i \in 1..Len(v) : v[i] \in GstinChars

\* C10 as stated: a constructed record holds the sentinel or a 15-character
\* GSTIN, and constructing with any other value fails with
\* GSTValidationError.
C10_OtherValuesRejected ==
    pc = "constructed" =>
        /\ construction.kind = "ok" => IsGstinOrSentinel(construction.vendor_gst)
        /\ ~IsGstinOrSentinel(vendor_gst_in) => construction.kind = "GSTValidationError"

\* C10 as amended: a constructed record holds the sentinel or a
\* 15-character GSTIN, namely the trimmed, upper-cased text it was built
\* with; construction fails with GSTValidationError exactly when that
\* trimmed, upper-cased text is neither.
C10_GstinInvariant ==
    pc = "constructed" =>
        /\ construction.kind \in {"ok", "GSTValidationError"}
        /\ construction.kind = "ok" =>
              /\ IsGstinOrSentinel(construction.vendor_gst)
              /\ construction.vendor_gst = Upper(Strip(vendor_gst_in))
        /\ construction.kind = "GSTValidationError" <=>
              ~IsGstinOrSentinel(Upper(Strip(vendor_gst_in)))
        /\ vendor_gst_in \in {UNREGISTERED, SampleGSTIN} => construction.kind = "ok"
        /\ vendor_gst_in = SubSeq(SampleGSTIN, 1, 14) =>
              construction.kind = "GSTValidationError"

\* A record built from a padded, lower-case GSTIN.
C10_Witness ==
    /\ pc = "constructed"
    /\ construction.kind = "ok"
    /\ Len(construction.vendor_gst) = 15
    /\ vendor_gst_in # construction.vendor_gst
    /\ Len(vendor_gst_in) > 15

(***************************************************************************)
(* Inputs of parse_decimal and parse_percentage: cell texts as the table   *)
(* decoder and the free-text scanner hand them over.                       *)
(***************************************************************************)
ParseBodies ==
    { <<"1", "2", "3", "4", ".", "5", "6">>,
      <<"1", ",", "2", "3", "4", ".", "5", "6">>,
      <<"5", "0", ".", "0", "0">>,
      <<"2", ".", "5">>,
      <<"0">>,
      <<"-", "0">>,
      <<"+", "5">>,
      <<".", "5">>,
      <<"5", ".">>,
      <<"1", "E", "+", "3">>,
      <<"1", "e", "-", "7">>,
      <<"0", ".", "0", "0", "0", "0", "0", "0", "1">>,
      <<"1", "_", "0", "0", "0">>,
      <<"1", "2", ",", "3", "4">>,
      <<"N", "a", "N">>,
      <<"n", "a", "n">>,
      <<"s", "N", "a", "N">>,
      <<"-", "N", "a", "N">>,
      <<"I", "n", "f", "i", "n", "i", "t", "y">>,
      <<"-", "I", "n", "f", "i", "n", "i", "t", "y">>,
      <<"i", "n", "f">>,
      <<"a", "b", "c">>,
      <<"1", "2", "a", "b", "c">>,
      <<"1", ".", "2", ".", "3">>,
      <<".">>,
      <<"-">>,
      <<>>,
      <<EM_DASH>>,
      <<EN_DASH>>,
      <<"N", "A">>,
      <<"n", "a">>,
      <<"N", "/", "A">>,
      <<"N", "o", "n", "e">>,
      <<"5", "-">>,
      <<"1", " ", "2">> }

\* A cell text written as an amount, with a currency glyph, in accounting
\* parentheses or as a percentage.
Decorated(body) ==
    { body, <<RUPEE>> \o body, <<"$", " ">> \o body, body \o <<"%">>,
      <<"(">> \o body \o <<")">>, <<RUPEE, "(">> \o body \o <<")">> }

\* The spellings of a word in every mix of letter cases.
CaseVariants(word) ==
    { [i \in 1..Len(word) |-> IF up[i] THEN UpperChar(word[i]) ELSE LowerChar(word[i])] :
        up \in [1..Len(word) -> BOOLEAN] }

PlaceholderWords == CaseVariants(<<"n","/","a">>) \cup CaseVariants(<<"n","o","n","e">>)

ParseInputs ==
    {None} \cup PlaceholderWords
    \cup UNION { Decorated(body) : body \in ParseBodies }

\* A result not computed yet.
Unset == [kind |-> "unset", sign |-> 0, coef |-> 0, exp |-> 0]

NoParse == [kind |-> "utils", decimal |-> Unset, percentage |-> Unset, again |-> Unset]

(***************************************************************************)
(* SpecParse: parse_decimal and parse_percentage applied to every cell     *)
(* text, and parse_decimal applied to the text of its own result.          *)
(***************************************************************************)
InitParse ==
    /\ pc = "utils"
    /\ \E left \in 0..MaxPad, right \in 0..MaxPad, t \in ParseInputs :
          input = IF t = None THEN None ELSE Blanks(left) \o t \o Blanks(right)
    /\ result = NoParse
    /\ classified = <<>>
    /\ IdleClassifier /\ IdleDetector /\ IdleValidator /\ IdleSchema
    /\ IdleAssembler

ParseDecimal ==
    /\ pc = "utils"
    /\ result.decimal = Unset
    /\ result' = [result EXCEPT !.decimal = parse_decimal(input)]
    /\ UNCHANGED <<written, pdf, headers, built_items, pc, input, df, summary_keywords, exclude_keywords, classified,
                   grand_total, invoice, validation, vendor_gst_in, construction>>

ParsePercentage ==
    /\ pc = "utils"
    /\ result.percentage = Unset
    /\ result' = [result EXCEPT !.percentage = parse_percentage(input)]
    /\ UNCHANGED <<written, pdf, headers, built_items, pc, input, df, summary_keywords, exclude_keywords, classified,
                   grand_total, invoice, validation, vendor_gst_in, construction>>

\* parse_decimal(str(parse_decimal(x))), as the free-text scanner's items
\* are read back by build_line_items_flipkart.
ParseDecimalAgain ==
    /\ pc = "utils"
    /\ result.decimal # Unset
    /\ result.again = Unset
    /\ result' = [result EXCEPT !.again = parse_decimal(DecStr(result.decimal))]
    /\ UNCHANGED <<written, pdf, headers, built_items, pc, input, df, summary_keywords, exclude_keywords, classified,
                   grand_total, invoice, validation, vendor_gst_in, construction>>

NextParse == ParseDecimal \/ ParsePercentage \/ ParseDecimalAgain

SpecParse == InitParse /\ [][NextParse]_vars

(***************************************************************************)
(* Claims about parse_decimal and parse_percentage (under SpecParse).      *)
(***************************************************************************)
\* The text parse_decimal hands to Decimal(...), for an input that is
\* neither None nor a placeholder.
ResidualText == StripSeparators(ParenToMinus(StripCurrency(Strip(input))))

\* The residual text denotes a number, finite or infinite.
ResidualIsNumber == DecimalOf(ResidualText).kind \in {"fin", "inf"}

\* C13: parsing the text of a parsed value gives a value equal (Python ==)
\* to the parsed value, for every input text.
C13_ParseDecimalIdempotent ==
    (pc = "utils" /\ result.again # Unset) => DecEq(result.again, result.decimal)

\* C14: "1,234.56" and the rupee-prefixed "1234.56" give 1234.56, "(50.00)"
\* gives -50.00, and null, blank, the dashes, "N/A" and "none" in any letter
\* case give 0.00.
C14_CleanInput ==
    (pc = "utils" /\ result.decimal # Unset) =>
        /\ (input # None /\ Strip(input) \in
                { <<"1", ",", "2", "3", "4", ".", "5", "6">>,
                  <<RUPEE, "1", "2", "3", "4", ".", "5", "6">> })
            => result.decimal = Dec(0, 123456, -2)
        /\ (input # None /\ Strip(input) = <<"(", "5", "0", ".", "0", "0", ")">>)
            => result.decimal = Dec(1, 5000, -2)
        /\ (\/ input = None
            \/ Strip(input) \in { <<>>, <<"-">>, <<EN_DASH>>, <<EM_DASH>> }
            \/ Strip(input) \in PlaceholderWords)
            => result.decimal = ZERO_00

C14_Witness ==
    /\ pc = "utils"
    /\ input = <<"(", "5", "0", ".", "0", "0", ")">>
    /\ result.decimal = Dec(1, 5000, -2)

\* C15: parse_decimal returns a decimal for every input and never raises,
\* and returns exactly zero whenever the text left after stripping is not
\* a number.
C15_NonNumberGivesZero ==
    (pc = "utils" /\ result.decimal # Unset) =>
        /\ result.decimal.kind \in {"fin", "inf", "nan", "snan"}
        /\ (input # None /\ ~ResidualIsNumber) => result.decimal = ZERO_00

\* Equal as Python's == has it, or the same not-a-number.
SameValue(a, b) == DecEq(a, b) \/ (a.kind \in {"nan", "snan"} /\ a = b)

\* C16: parse_percentage gives the same value as parse_decimal, for every
\* input text.
C16_PercentageSameAsDecimal ==
    (pc = "utils" /\ result.decimal # Unset /\ result.percentage # Unset) =>
        SameValue(result.percentage, result.decimal)

(***************************************************************************)
(* Regular expressions (re.search / re.match) of the shapes the parsers    *)
(* use: a pattern is a sequence of atoms, each a character class (given,   *)
(* or negated) repeated between min and max times (max -1: no limit).      *)
(* Alternatives are written as a set of patterns.                          *)
(***************************************************************************)
Atom(cls, neg, min, max) == [cls |-> cls, neg |-> neg, min |-> min, max |-> max]

\* The literal text s
Lit(s) == [i \in 1..Len(s) |-> Atom({s[i]}, FALSE, 1, 1)]

\* \s*, \s+, \d+, . and .*
WS0 == <<Atom(Whitespace \cup {"\n"}, FALSE, 0, -1)>>

WS1 == <<Atom(Whitespace \cup {"\n"}, FALSE, 1, -1)>>

DIGITS1 == <<Atom(Range(Digits), FALSE, 1, -1)>>

DOTSTAR == <<Atom({"\n"}, TRUE, 0, -1)>>

AlphaNum == Range(Digits) \cup Range(UpperLetters) \cup Range(LowerLetters)

Fits(a, c) == (c \in a.cls) # a.neg

\* How many characters of s from position i on fit atom a, at most.
RunLength(a, s, i) ==
    LET stops == {j \in i..Len(s) : ~Fits(a, s[j])}
        run == IF stops = {} THEN Len(s) - i + 1 ELSE SetMin(stops) - i
    IN  IF a.max >= 0 /\ a.max < run THEN a.max ELSE run

\* The positions right after a match of pat that begins at position i.
RECURSIVE Ends(_, _, _)
Ends(pat, s, i) ==
    IF pat = <<>> THEN {i}
    ELSE UNION { Ends(Tail(pat), s, i + c) :
                    c \in Head(pat).min..RunLength(Head(pat), s, i) }

\* Whether pat matches from i; atEnd asks the match to reach the end ($).
MatchesAt(pat, s, i, atEnd) ==
    IF atEnd THEN (Len(s) + 1) \in Ends(pat, s, i) ELSE Ends(pat, s, i) # {}

\* re.match(pat, s) / re.search(pat, s), as a truth value
ReMatch(pat, s, atEnd) == MatchesAt(pat, s, 1, atEnd)

ReSearch(pat, s) ==
    \E i \in 1..(Len(s) + 1) :
        /\ pat = <<>> \/ pat[1].min = 0 \/ (i <= Len(s) /\ Fits(pat[1], s[i]))
        /\ MatchesAt(pat, s, i, FALSE)

\* The number of characters each atom takes in the match the regex engine
\* returns from position i, where pat matches: every atom greedy, the
\* earlier atom first.
RECURSIVE Takes(_, _, _, _)
Takes(pat, s, i, atEnd) ==
    IF pat = <<>> THEN <<>>
    ELSE LET a == Head(pat)
             c == IF a.min = a.max THEN a.min
                  ELSE SetMax({k \in a.min..RunLength(a, s, i) :
                                  MatchesAt(Tail(pat), s, i + k, atEnd)})
         IN  <<c>> \o Takes(Tail(pat), s, i + c, atEnd)

Sum(f, n) == IF n = 0 THEN 0 ELSE LET S[k \in 0..n] == IF k = 0 THEN 0 ELSE S[k - 1] + f[k] IN S[n]

\* What the atoms from..to of pat capture in the leftmost match of pat in
\* s, read off the text original; NoMatch when there is none.
NoMatch == <<"<no match>">>

CaptureIn(pat, s, from, to, atEnd, original) ==
    LET starts == {i \in 1..(Len(s) + 1) :
                      /\ pat = <<>> \/ pat[1].min = 0 \/ (i <= Len(s) /\ Fits(pat[1], s[i]))
                      /\ MatchesAt(pat, s, i, atEnd)}
    IN  IF starts = {} THEN NoMatch
        ELSE LET i == SetMin(starts)
                 t == Takes(pat, s, i, atEnd)
                 b == i + Sum(t, from - 1)
             IN  SubSeq(original, b, i + Sum(t, to) - 1)

Capture(pat, s, from, to, atEnd) == CaptureIn(pat, s, from, to, atEnd, s)

\* The same with re.IGNORECASE, for a pattern written in lower case: the
\* match is found on the lowered text, the group is taken from the text.
CaptureIgnoreCase(pat, s, from, to) == CaptureIn(pat, Lower(s), from, to, FALSE, s)

\* text.split('\n')
RECURSIVE SplitLines(_)
SplitLines(s) ==
    LET nl == {i \in 1..Len(s) : s[i] = "\n"}
    IN  IF nl = {} THEN <<s>>
        ELSE <<SubSeq(s, 1, SetMin(nl) - 1)>>
             \o SplitLines(SubSeq(s, SetMin(nl) + 1, Len(s)))

\* "\n".join(lines)
RECURSIVE JoinLines(_)
JoinLines(ls) ==
    IF ls = <<>> THEN <<>>
    ELSE IF Len(ls) = 1 THEN ls[1]
    ELSE ls[1] \o <<"\n">> \o JoinLines(Tail(ls))

(***************************************************************************)
(* text_table_parser.py: _extract_flipkart_line_items                      *)
(***************************************************************************)
TableExtractionError == [kind |-> "TableExtractionError"]

\* The maximal runs of non-blank characters of s, as index ranges.
RECURSIVE WordSpans(_, _)
WordSpans(s, i) ==
    IF i > Len(s) THEN <<>>
    ELSE IF s[i] \in Whitespace THEN WordSpans(s, i + 1)
    ELSE LET e == SetMin({j \in i..Len(s) : j = Len(s) \/ s[j + 1] \in Whitespace})
         IN  <<[from |-> i, to |-> e]>> \o WordSpans(s, e + 1)

\* " ".join(parts)
RECURSIVE JoinBlank(_)
JoinBlank(parts) ==
    IF parts = <<>> THEN <<>>
    ELSE IF Len(parts) = 1 THEN parts[1]
    ELSE parts[1] \o <<" ">> \o JoinBlank(Tail(parts))

\* re.sub(r'\s+', ' ', " ".join(parts).strip())  (lines 284-285)
JoinDescription(parts) ==
    LET joined == JoinBlank(parts)
        spans == WordSpans(joined, 1)
    IN  JoinBlank([i \in 1..Len(spans) |-> SubSeq(joined, spans[i].from, spans[i].to)])

\* \w
WordChar(c) == c \in AlphaNum \cup {"_"}

\* [\d,]+\.?\d* over a whole word
IsAmountWord(w) ==
    LET dots == {i \in 1..Len(w) : w[i] = "."}
        p == IF dots = {} THEN Len(w) + 1 ELSE SetMin(dots)
    IN  /\ p > 1
        /\ \A i \in 1..(p - 1) : w[i] \in DigitSet \cup {","}
        /\ \A i \in (p + 1)..Len(w) : w[i] \in DigitSet

\* -?[\d,]+\.?\d* over a whole word
IsDiscountWord(w) ==
    IsAmountWord(w) \/ (w # <<>> /\ w[1] = "-" /\ IsAmountWord(Tail(w)))

\* Where \b(\d+) can begin inside word w so as to end with the word: at
\* the first of its closing digits, unless a letter or underscore comes
\* before it.  0 when nowhere.
QtyStart(w) ==
    LET ds == {i \in 1..Len(w) : AllDigits(SubSeq(w, i, Len(w)))}
    IN  IF ds = {} THEN 0
        ELSE IF SetMin(ds) = 1 \/ ~WordChar(w[SetMin(ds) - 1]) THEN SetMin(ds)
        ELSE 0

NoNumbers == [found |-> FALSE]

\* number_pattern.search(line_stripped) (lines 213-221, 272): qty, gross,
\* discount, taxable value, igst amount, an optional cess and the total
\* close the line, each a word of its own; the match that begins further
\* left (the one with a cess) is the one returned.
NumberMatch(l) ==
    LET spans == WordSpans(l, 1)
        n == Len(spans)
        word(i) == SubSeq(l, spans[i].from, spans[i].to)
        fits(k) == /\ k >= 1
                   /\ QtyStart(word(k)) # 0
                   /\ IsAmountWord(word(k + 1))
                   /\ IsDiscountWord(word(k + 2))
                   /\ \A j \in (k + 3)..n : IsAmountWord(word(j))
        k == IF fits(n - 6) THEN n - 6 ELSE IF fits(n - 5) THEN n - 5 ELSE 0
    IN  IF k = 0 THEN NoNumbers
        ELSE [found |-> TRUE,
              before |-> SubSeq(l, 1, spans[k].from + QtyStart(word(k)) - 2),
              gross |-> word(k + 1), discount |-> word(k + 2),
              taxable |-> word(k + 3), igst |-> word(k + 4),
              cess |-> IF n - k = 6 THEN word(k + 5) ELSE <<"0">>,
              total |-> word(n)]

\* (?:Product|Particulars).*(?:Qty|Quantity).*(?:Total), letters lowered
\* for re.IGNORECASE (line 234)
TableHeaderPatterns ==
    { Lit(a) \o DOTSTAR \o Lit(b) \o DOTSTAR \o Lit(<<"t", "o", "t", "a", "l">>) :
        a \in { <<"p", "r", "o", "d", "u", "c", "t">>,
                <<"p", "a", "r", "t", "i", "c", "u", "l", "a", "r", "s">> },
        b \in { <<"q", "t", "y">>, <<"q", "u", "a", "n", "t", "i", "t", "y">> } }

IsTableHeader(l) ==
    LET lowered == Lower(l) IN \E pat \in TableHeaderPatterns : ReSearch(pat, lowered)

\* ^\s*(?:Amount|Value|rupee sign|\s)+\s*$  (line 241)
RECURSIVE OnlyCaptions(_)
OnlyCaptions(l) ==
    \/ l = <<>>
    \/ /\ Len(l) >= 6 /\ SubSeq(l, 1, 6) = <<"A", "m", "o", "u", "n", "t">>
       /\ OnlyCaptions(SubSeq(l, 7, Len(l)))
    \/ /\ Len(l) >= 5 /\ SubSeq(l, 1, 5) = <<"V", "a", "l", "u", "e">>
       /\ OnlyCaptions(SubSeq(l, 6, Len(l)))
    \/ /\ l # <<>> /\ l[1] \in Whitespace \cup {RUPEE}
       /\ OnlyCaptions(Tail(l))

IsSubHeader(l) == l # <<>> /\ OnlyCaptions(l)

\* IGST:\s*([\d.]+)\s*%  (line 245); the class is atom 7
IgstPattern ==
    Lit(<<"I", "G", "S", "T", ":">>) \o WS0 \o <<Atom(DigitSet \cup {"."}, FALSE, 1, -1)>>
    \o WS0 \o Lit(<<"%">>)

\* HSN(?:/SAC)?\s*[:]\s*(\d+)  (line 251)
HsnPatterns ==
    { Lit(h) \o WS0 \o Lit(<<":">>) \o WS0 \o DIGITS1 :
        h \in { <<"H", "S", "N">>, <<"H", "S", "N", "/", "S", "A", "C">> } }

\* skip_patterns (lines 257-267), letters lowered for re.IGNORECASE
SkipPatterns ==
    { [anchored |-> TRUE, atEnd |-> FALSE,
       pat |-> Lit(<<"f", "s", "n", ":">>)],
      [anchored |-> FALSE, atEnd |-> FALSE,
       pat |-> Lit(<<"i", "m", "e", "i">>)],
      [anchored |-> TRUE, atEnd |-> FALSE,
       pat |-> Lit(<<"|">>) \o DOTSTAR \o Lit(<<"c", "e", "s", "s">>)],
      [anchored |-> FALSE, atEnd |-> FALSE,
       pat |-> Lit(<<"f", "k", "s", "b", "_">>)],
      [anchored |-> FALSE, atEnd |-> FALSE,
       pat |-> Lit(<<"h", "a", "n", "d", "l", "i", "n", "g">>) \o WS0 \o Lit(<<"f", "e", "e">>) \o DOTSTAR \o Lit(<<"0", ".", "0", "0">>)],
      [anchored |-> FALSE, atEnd |-> FALSE,
       pat |-> Lit(<<"t", "o", "t", "a", "l">>) \o WS0 \o Lit(<<"i", "t", "e", "m", "s">>)],
      [anchored |-> FALSE, atEnd |-> FALSE,
       pat |-> Lit(<<"t", "o", "t", "a", "l">>) \o WS0 \o Lit(<<"p", "r", "i", "c", "e">>)],
      [anchored |-> FALSE, atEnd |-> FALSE,
       pat |-> Lit(<<"t", "o", "t", "a", "l">>) \o WS0 \o Lit(<<"q", "t", "y">>)],
      [anchored |-> FALSE, atEnd |-> FALSE,
       pat |-> Lit(<<"a", "l", "l">>) \o WS0 \o Lit(<<"v", "a", "l", "u", "e", "s">>)],
      [anchored |-> FALSE, atEnd |-> FALSE,
       pat |-> Lit(<<"g", "r", "a", "n", "d">>) \o WS0 \o Lit(<<"t", "o", "t", "a", "l">>)],
      [anchored |-> FALSE, atEnd |-> FALSE,
       pat |-> Lit(<<"s", "e", "l", "l", "e", "r">>) \o WS0 \o Lit(<<"r", "e", "g", "i", "s", "t", "e", "r", "e", "d">>)],
      [anchored |-> FALSE, atEnd |-> FALSE,
       pat |-> Lit(<<"f", "s", "s", "a", "i">>)],
      [anchored |-> FALSE, atEnd |-> FALSE,
       pat |-> Lit(<<"o", "r", "d", "e", "r", "e", "d">>) \o WS0 \o Lit(<<"t", "h", "r", "o", "u", "g", "h">>)],
      [anchored |-> FALSE, atEnd |-> FALSE,
       pat |-> Lit(<<"a", "u", "t", "h", "o", "r", "i", "z", "e", "d">>)],
      [anchored |-> FALSE, atEnd |-> FALSE,
       pat |-> Lit(<<"e", ".">>) \o WS0 \o Lit(<<"&">>) \o WS0 \o Lit(<<"o", ".", "e">>)],
      [anchored |-> FALSE, atEnd |-> FALSE,
       pat |-> Lit(<<"s", "i", "g", "n", "a", "t", "u", "r", "e">>)],
      [anchored |-> FALSE, atEnd |-> FALSE,
       pat |-> Lit(<<"r", "e", "t", "u", "r", "n", "s">>) \o WS0 \o Lit(<<"p", "o", "l", "i", "c", "y">>)],
      [anchored |-> FALSE, atEnd |-> FALSE,
       pat |-> Lit(<<"r", "e", "g", "d", ".">>) \o WS0 \o Lit(<<"o", "f", "f", "i", "c", "e">>)],
      [anchored |-> FALSE, atEnd |-> FALSE,
       pat |-> Lit(<<"c", "o", "n", "t", "a", "c", "t">>) \o WS0 \o Lit(<<"f", "l", "i", "p", "k", "a", "r", "t">>)],
      [anchored |-> FALSE, atEnd |-> FALSE,
       pat |-> Lit(<<"p", "a", "g", "e">>) \o WS1 \o DIGITS1 \o WS1 \o Lit(<<"o", "f">>) \o WS1 \o DIGITS1],
      [anchored |-> TRUE, atEnd |-> FALSE,
       pat |-> Lit(<<"|">>) \o WS0 \o Lit(<<"c", "e", "s", "s">>)],
      [anchored |-> TRUE, atEnd |-> TRUE,
       pat |-> Lit(<<"|">>) \o WS0],
      [anchored |-> TRUE, atEnd |-> FALSE,
       pat |-> Lit(<<"t", "h", "e">>) \o WS1 \o Lit(<<"g", "o", "o", "d", "s">>) \o WS1 \o Lit(<<"s", "o", "l", "d">>)],
      [anchored |-> TRUE, atEnd |-> TRUE,
       pat |-> <<Atom(AlphaNum, FALSE, 10, -1)>>],
      [anchored |-> TRUE, atEnd |-> FALSE,
       pat |-> <<Atom(AlphaNum, FALSE, 10, -1)>> \o WS1] }

\* any(re.search(p, line_stripped, re.IGNORECASE) for p in skip_patterns)
IsSkipped(l) ==
    LET lowered == Lower(l)
    IN  \E p \in SkipPatterns :
            IF p.anchored THEN MatchesAt(p.pat, lowered, 1, p.atEnd)
            ELSE ReSearch(p.pat, lowered)

\* The loop's variables before the first line (lines 209, 224-227);
\* hsn_code is left out: it is written but never read.
ScanInit ==
    [table_started |-> FALSE, igst_rate |-> ZERO_00,
     description_parts |-> <<>>, line_items |-> <<>>]

\* The item dictionary of lines 301-310
ItemDict(description, igst_rate, m) ==
    [description |-> description,
     gross_value |-> DecStr(parse_decimal(m.gross)),
     discount |-> DecStr(DecAbs(parse_decimal(m.discount))),
     net_value |-> DecStr(parse_decimal(m.taxable)),
     igst_rate |-> DecStr(igst_rate),
     igst_amount |-> DecStr(parse_decimal(m.igst)),
     cess_amount |-> DecStr(parse_decimal(m.cess)),
     total |-> DecStr(parse_decimal(m.total))]

\* A line on which number_pattern matched as m (lines 273-317)
NumericLine(st, m) ==
    LET before == Strip(m.before)
        parts == IF before # <<>> THEN Append(st.description_parts, before)
                 ELSE st.description_parts
        description == JoinDescription(parts)
    IN  IF Lower(before) \in
              { <<"t","o","t","a","l">>,
                <<"t","o","t","a","l"," ","p","r","i","c","e">>,
                <<"g","r","a","n","d"," ","t","o","t","a","l">> }
        THEN [st EXCEPT !.description_parts = <<>>]
        ELSE IF description = <<>> THEN [st EXCEPT !.description_parts = <<>>]
        ELSE [st EXCEPT !.line_items = Append(@, ItemDict(description, st.igst_rate, m)),
                        !.description_parts = <<>>,
                        !.igst_rate = ZERO_00]

\* A line on which number_pattern did not match (lines 318-321)
TextLine(st, l) ==
    IF Len(l) > 2 /\ l[1] \notin {"|", "#"}
    THEN [st EXCEPT !.description_parts = Append(@, l)]
    ELSE st

\* A loop body that reads every line as if the header had been seen.
ScanLineUngated(st, line) ==
    LET l == Strip(line)
    IN  CASE IsSubHeader(l) -> st
          [] ~IsSubHeader(l) /\ Capture(IgstPattern, l, 7, 7, FALSE) # NoMatch ->
                [st EXCEPT !.igst_rate =
                    parse_percentage(Capture(IgstPattern, l, 7, 7, FALSE))]
          [] OTHER ->
                IF \E pat \in HsnPatterns : ReSearch(pat, l) THEN st
                ELSE IF IsSkipped(l) THEN st
                ELSE IF NumberMatch(l).found THEN NumericLine(st, NumberMatch(l))
                ELSE TextLine(st, l)

\* One pass of the loop body on a line (lines 229-321)
ScanLine(st, line) ==
    LET l == Strip(line)
    IN  CASE ~st.table_started ->
                [st EXCEPT !.table_started = IsTableHeader(l)]
          [] st.table_started /\ IsSubHeader(l) -> st
          [] st.table_started /\ ~IsSubHeader(l)
                /\ Capture(IgstPattern, l, 7, 7, FALSE) # NoMatch ->
                [st EXCEPT !.igst_rate =
                    parse_percentage(Capture(IgstPattern, l, 7, 7, FALSE))]
          [] OTHER ->
                IF \E pat \in HsnPatterns : ReSearch(pat, l) THEN st
                ELSE IF IsSkipped(l) THEN st
                ELSE IF NumberMatch(l).found THEN NumericLine(st, NumberMatch(l))
                ELSE TextLine(st, l)

RECURSIVE ScanLines(_, _)
ScanLines(st, lines) ==
    IF lines = <<>> THEN st ELSE ScanLines(ScanLine(st, Head(lines)), Tail(lines))

\* A scanner that returns whatever it has found, nothing included.
_extract_flipkart_line_items_partial(t) ==
    [kind |-> "ok", line_items |-> ScanLines(ScanInit, SplitLines(t)).line_items]

\* Lines 323-326 on the items the loop has found
ItemsOrTableError(line_items) ==
    IF line_items = <<>> THEN TableExtractionError
    ELSE [kind |-> "ok", line_items |-> line_items]

\* _extract_flipkart_line_items(text)
_extract_flipkart_line_items(t) ==
    ItemsOrTableError(ScanLines(ScanInit, SplitLines(t)).line_items)

(***************************************************************************)
(* Inputs of the free-text scanner: page texts made of a table header and  *)
(* the kinds of line that follow it on an invoice page.                    *)
(***************************************************************************)
MaxLines == 3

TableHeaderLine == <<"P", "r", "o", "d", "u", "c", "t", " ", "Q", "t", "y", " ", "T", "o", "t", "a", "l">>

ScanLineSamples ==
    { <<"W", "i", "d", "g", "e", "t", " ", "B", "l", "u", "e">>,
      <<"T", "o", "t", "a", "l">>,
      <<"G", "r", "a", "n", "d", " ", "T", "o", "t", "a", "l">>,
      <<"1", " ", "1", "0", ".", "0", " ", "0", " ", "1", "0", ".", "0", " ", "1", ".", "8", " ", "1", "1", ".", "8">>,
      <<"T", "o", "t", "a", "l", " ", "1", " ", "1", "0", ".", "0", " ", "0", " ", "1", "0", ".", "0", " ", "1", ".", "8", " ", "1", "1", ".", "8">>,
      <<"G", "r", "a", "n", "d", " ", "T", "o", "t", "a", "l", " ", "1", " ", "1", "0", ".", "0", " ", "0", " ", "1", "0", ".", "0", " ", "1", ".", "8", " ", "1", "1", ".", "8">>,
      <<"I", "G", "S", "T", ":", " ", "1", "8", ".", "0", " ", "%">>,
      <<"W", "i", "d", "g", "e", "t", " ", "2", " ", "9", ".", "0", " ", "-", "1", " ", "8", ".", "0", " ", "1", ".", "4", " ", "0", ".", "5", " ", "9", ".", "9">> }

(***************************************************************************)
(* SpecScan: _extract_flipkart_line_items applied to every page text.      *)
(***************************************************************************)
InitScan ==
    /\ pc = "scan"
    /\ \E head \in {<<>>, <<TableHeaderLine>>}, n \in 0..MaxLines :
          \E ls \in [1..n -> ScanLineSamples] : input = JoinLines(head \o ls)
    /\ result = NoResult
    /\ classified = <<>>
    /\ IdleClassifier /\ IdleDetector /\ IdleValidator /\ IdleSchema
    /\ IdleAssembler

ExtractFlipkartLineItems ==
    /\ pc = "scan"
    /\ result' = _extract_flipkart_line_items(input)
    /\ pc' = "scanned"
    /\ UNCHANGED <<written, pdf, headers, built_items, input, df, summary_keywords, exclude_keywords, classified,
                   grand_total, invoice, validation, vendor_gst_in, construction>>

NextScan == ExtractFlipkartLineItems

SpecScan == InitScan /\ [][NextScan]_vars

(***************************************************************************)
(* Claims about the free-text scanner (checked under SpecScan).            *)
(***************************************************************************)
TotalCaptions ==
    { <<"T","o","t","a","l">>, <<"G","r","a","n","d"," ","T","o","t","a","l">> }

InputLines == SplitLines(input)

\* The lines of the input on which the number pattern matches.
NumericLines == {i \in 1..Len(InputLines) : NumberMatch(Strip(InputLines[i])).found}

\* C17: a numeric line whose preceding description text is exactly "Total"
\* or "Grand Total" is discarded: no emitted item carries that description,
\* whether the caption is on the numeric line or on the line before it.
C17_TotalRowsSuppressed ==
    (pc = "scanned" /\ result.kind = "ok") =>
        \A i \in 1..Len(result.line_items) :
            result.line_items[i].description \notin TotalCaptions

\* C18: the scanner returns a non-empty list or raises TableExtractionError;
\* it raises when the text has no table header, no numeric line, or only
\* numeric lines captioned as totals.
C18_NonEmptyOrError ==
    pc = "scanned" =>
        /\ \/ result = TableExtractionError
           \/ result.kind = "ok" /\ Len(result.line_items) >= 1
        /\ (\/ \A i \in 1..Len(InputLines) : ~IsTableHeader(Strip(InputLines[i]))
            \/ NumericLines = {}
            \/ \A i \in NumericLines :
                  Strip(NumberMatch(Strip(InputLines[i])).before) \in TotalCaptions)
           => result = TableExtractionError

C18_Witness ==
    /\ pc = "scanned"
    /\ result = TableExtractionError
    /\ IsTableHeader(InputLines[1])
    /\ NumericLines # {}

(***************************************************************************)
(* SpecScanLoop: the loop of _extract_flipkart_line_items, one line at a   *)
(* step.  result holds the loop's variables: i, the number of lines read,  *)
(* and st, the values of table_started, igst_rate, description_parts and   *)
(* line_items.                                                             *)
(***************************************************************************)
\* A product identifier line that also carries a rate annotation
FsnLine ==
    <<"F", "S", "N", ":", " ", "X", " ", "I", "G", "S", "T", ":", " ", "5", " ", "%">>

ScanLoopSamples == ScanLineSamples \cup {FsnLine}

Loop(i, st) == [kind |-> "loop", i |-> i, st |-> st]

InitScanLoop ==
    /\ pc = "scan_loop"
    /\ \E head \in {<<>>, <<TableHeaderLine>>}, n \in 0..MaxLines :
          \E ls \in [1..n -> ScanLoopSamples] : input = JoinLines(head \o ls)
    /\ result = Loop(0, ScanInit)
    /\ classified = <<>>
    /\ IdleClassifier /\ IdleDetector /\ IdleValidator /\ IdleSchema
    /\ IdleAssembler

\* One pass of the for loop (lines 229-321)
ScanNextLine ==
    /\ pc = "scan_loop"
    /\ result.i < Len(SplitLines(input))
    /\ result' = Loop(result.i + 1, ScanLine(result.st, SplitLines(input)[result.i + 1]))
    /\ UNCHANGED <<pc, written, pdf, headers, built_items, input, df, summary_keywords, exclude_keywords,
                   classified, grand_total, invoice, validation, vendor_gst_in,
                   construction>>

\* The loop is over: lines 323-326
ReturnLineItems ==
    /\ pc = "scan_loop"
    /\ result.i = Len(SplitLines(input))
    /\ result' = ItemsOrTableError(result.st.line_items)
    /\ pc' = "scanned"
    /\ UNCHANGED <<written, pdf, headers, built_items, input, df, summary_keywords, exclude_keywords,
                   classified, grand_total, invoice, validation, vendor_gst_in,
                   construction>>

NextScanLoop == ScanNextLine \/ ReturnLineItems

SpecScanLoop == InitScanLoop /\ [][NextScanLoop]_vars

(***************************************************************************)
(* Claims about the scanner's loop (checked under SpecScanLoop).           *)
(***************************************************************************)
LoopLines == SplitLines(input)

\* The loop is about to read a line
Reading == pc = "scan_loop" /\ result.i < Len(LoopLines)

\* line_stripped of the line about to be read
CurrentLine == Strip(LoopLines[result.i + 1])

\* The text of the rate annotation in line l, NoMatch when it has none
AnnotationIn(l) == Capture(IgstPattern, Strip(l), 7, 7, FALSE)

\* The lines read so far, after the header line, that hold a rate annotation
AnnotationsSeen ==
    {j \in 1..result.i :
        /\ \E h \in 1..(j - 1) : IsTableHeader(Strip(LoopLines[h]))
        /\ AnnotationIn(LoopLines[j]) # NoMatch}

\* The step appends one item to line_items
Emits ==
    /\ Reading
    /\ Len(result'.st.line_items) = Len(result.st.line_items) + 1
    /\ SubSeq(result'.st.line_items, 1, Len(result.st.line_items)) = result.st.line_items

Emitted == result'.st.line_items[Len(result'.st.line_items)]

\* C25: every emitted line item carries as igst_rate the rate of the most
\* recently seen "IGST: n%" annotation line before it in the scan, also
\* when another item was emitted since that annotation.
C25_RateOfLastAnnotation ==
    [][(Emits /\ AnnotationsSeen # {}) =>
          Emitted.igst_rate =
              DecStr(parse_percentage(AnnotationIn(LoopLines[SetMax(AnnotationsSeen)])))]_vars

\* The line about to be read is, after the header, a line on which the
\* number pattern matches and that is no sub-header, annotation, HSN line
\* or noise line
NumericHere ==
    /\ Reading
    /\ result.st.table_started
    /\ ~IsSubHeader(CurrentLine)
    /\ AnnotationIn(CurrentLine) = NoMatch
    /\ ~\E pat \in HsnPatterns : ReSearch(pat, CurrentLine)
    /\ ~IsSkipped(CurrentLine)
    /\ NumberMatch(CurrentLine).found

\* The fragments accumulated, then the leading text of the numeric line
CombinedParts ==
    result.st.description_parts
        \o (IF Strip(NumberMatch(CurrentLine).before) = <<>> THEN <<>>
            ELSE <<Strip(NumberMatch(CurrentLine).before)>>)

SummaryCaptions ==
    { <<"t","o","t","a","l">>,
      <<"t","o","t","a","l"," ","p","r","i","c","e">>,
      <<"g","r","a","n","d"," ","t","o","t","a","l">> }

\* C26: after the header every numeric line that is not noise and whose
\* combined description is no total caption emits exactly one item, also
\* with no description accumulated; its description is the accumulated
\* fragments in order followed by the line's leading text, its discount is
\* not negative, and the accumulator is empty afterwards.
C26_NumericLineEmits ==
    [][(NumericHere /\ Lower(JoinDescription(CombinedParts)) \notin SummaryCaptions) =>
          /\ Emits
          /\ Emitted.description = JoinDescription(CombinedParts)
          /\ Emitted.discount[1] # "-"
          /\ result'.st.description_parts = <<>>]_vars

\* C27: a line matching a noise pattern changes neither the accumulator,
\* the current rate nor the emitted items, also when the number pattern
\* matches on it.
C27_NoiseChangesNothing ==
    [][(Reading /\ IsSkipped(CurrentLine)) => result'.st = result.st]_vars

\* C28: while no header line has been read nothing is accumulated, no
\* rate is recorded and no item is emitted; only a header line enables
\* parsing, it contributes nothing itself, and parsing stays enabled.
C28_Gating ==
    /\ []((pc = "scan_loop" /\ ~result.st.table_started) => result.st = ScanInit)
    /\ [][Reading =>
            /\ result.st.table_started => result'.st.table_started
            /\ (~result.st.table_started /\ result'.st.table_started) =>
                  /\ IsTableHeader(CurrentLine)
                  /\ result'.st = [ScanInit EXCEPT !.table_started = TRUE]]_vars

\* Three lines were read without a header among them, an annotation and a
\* numeric line with leading text included, and the loop is still searching.
C28_Witness ==
    /\ pc = "scan_loop"
    /\ result.i = 3
    /\ ~result.st.table_started
    /\ result.st = ScanInit
    /\ \E j \in 1..3 : AnnotationIn(LoopLines[j]) # NoMatch
    /\ \E j \in 1..3 :
          /\ NumberMatch(Strip(LoopLines[j])).found
          /\ Strip(NumberMatch(Strip(LoopLines[j])).before) # <<>>
          /\ ~IsSkipped(Strip(LoopLines[j]))

(***************************************************************************)
(* header_extractor.py: extract_headers                                    *)
(***************************************************************************)
HeaderExtractionError(field_name) ==
    [kind |-> "HeaderExtractionError", field |-> field_name]

\* match.group(1) on a pattern that has no group
IndexError == [kind |-> "IndexError"]

ValueError == [kind |-> "ValueError"]

\* The date format of the templates.
DMY == "%d-%m-%Y"

\* The decimal value of a digit text
RECURSIVE IntOf(_)
IntOf(ds) == IF ds = <<>> THEN 0 ELSE 10 * IntOf(SubSeq(ds, 1, Len(ds) - 1)) + DigitVal(ds[Len(ds)])

DaysIn(month, year) ==
    CASE month \in {4, 6, 9, 11} -> 30
      [] month = 2 ->
            IF year % 4 = 0 /\ (year % 100 # 0 \/ year % 400 = 0) THEN 29 ELSE 28
      [] OTHER -> 31

\* datetime.strptime(value, "%d-%m-%Y").date(): one or two digits, one or
\* two digits, four digits, with hyphens between and nothing around.
strptime_DMY(value) ==
    LET hy == {i \in 1..Len(value) : value[i] = "-"}
        h1 == SetMin(hy)
        h2 == SetMax(hy)
        d == SubSeq(value, 1, h1 - 1)
        m == SubSeq(value, h1 + 1, h2 - 1)
        y == SubSeq(value, h2 + 1, Len(value))
    IN  IF /\ Cardinality(hy) = 2
           /\ Len(d) \in {1, 2} /\ Len(m) \in {1, 2} /\ Len(y) = 4
           /\ AllDigits(d) /\ AllDigits(m) /\ AllDigits(y)
           /\ IntOf(m) \in 1..12 /\ IntOf(y) >= 1
           /\ IntOf(d) \in 1..DaysIn(IntOf(m), IntOf(y))
        THEN [kind |-> "date", year |-> IntOf(y), month |-> IntOf(m), day |-> IntOf(d)]
        ELSE ValueError

\* A configured pattern: the atoms from..to of pat are group 1 (from = 0:
\* the pattern has no group).  NoRegex: the config has no "regex", or "".
Regex(pat, from, to) == [given |-> TRUE, pat |-> pat, from |-> from, to |-> to]

NoRegex == [given |-> FALSE, pat |-> <<>>, from |-> 0, to |-> 0]

\* clean_text(match.group(1)), or None when value stays None (lines 35-41)
FieldValue(t, regex) ==
    IF ~regex.given THEN [kind |-> "None", text |-> <<>>]
    ELSE IF CaptureIgnoreCase(regex.pat, t, 1, 0) = NoMatch
    THEN [kind |-> "None", text |-> <<>>]
    ELSE IF regex.from = 0 THEN [kind |-> "IndexError", text |-> <<>>]
    ELSE [kind |-> "text",
          text |-> Strip(CaptureIgnoreCase(regex.pat, t, regex.from, regex.to))]

\* The entry added to results for a field whose cleaned group is value, or
\* the error raised (lines 43-59).
EntryOf(field, value) ==
    CASE value.kind = "IndexError" -> IndexError
      [] value.kind = "None" -> HeaderExtractionError(field.name)
      [] value.kind = "text" /\ value.text = <<>> -> HeaderExtractionError(field.name)
      [] value.kind = "text" /\ value.text # <<>> /\ field.date_format = DMY ->
            IF strptime_DMY(value.text) = ValueError
            THEN HeaderExtractionError(field.name)
            ELSE [kind |-> "entry", name |-> field.name,
                  value |-> strptime_DMY(value.text)]
      [] OTHER -> [kind |-> "entry", name |-> field.name,
                   value |-> [kind |-> "str", text |-> value.text]]

\* One pass of the loop (lines 31-59).
ExtractField(t, field) == EntryOf(field, FieldValue(t, field.regex))

\* The loop's outcome: the results when every pass added an entry, the
\* error of the first pass that raised otherwise.
ResultsOrError(passes) ==
    IF \A i \in 1..Len(passes) : passes[i].kind = "entry"
    THEN [kind |-> "ok", results |-> passes]
    ELSE passes[SetMin({i \in 1..Len(passes) : passes[i].kind # "entry"})]

\* extract_headers(text, field_configs); field_configs in dictionary order
extract_headers(t, field_configs) ==
    ResultsOrError([i \in 1..Len(field_configs) |-> ExtractField(t, field_configs[i])])

(***************************************************************************)
(* Inputs of extract_headers: page texts and header rules.                 *)
(***************************************************************************)
MaxFields == 2

HeaderTexts ==
    { <<"N", "o", ":", " ", "A", "1", "\n", "D", "a", "t", "e", ":", " ", "0", "5", "-", "1", "1", "-", "2", "0", "2", "4">>,
      <<"N", "o", ":", " ", "A", "1", "\n", "D", "a", "t", "e", ":", " ", "3", "1", "-", "0", "2", "-", "2", "0", "2", "4">>,
      <<"N", "o", ":", " ", " ", "\n", "D", "a", "t", "e", ":", " ", "5", "-", "1", "-", "2", "0", "2", "4">>,
      <<"N", "O", ":", " ", "a", "1">>,
      <<"D", "a", "t", "e", ":", " ", "0", "5", "-", "1", "1", "-", "2", "0", "2", "4">>,
      <<>> }

\* no: *(\S+)   no:(.*)   date: *([\d-]+)   no: (no group)   and no regex
RegexSamples ==
    { Regex(Lit(<<"n", "o", ":">>) \o <<Atom({" "}, FALSE, 0, -1)>>
                \o <<Atom(Whitespace, TRUE, 1, -1)>>, 5, 5),
      Regex(Lit(<<"n", "o", ":">>) \o DOTSTAR, 4, 4),
      Regex(Lit(<<"d", "a", "t", "e", ":">>) \o <<Atom({" "}, FALSE, 0, -1)>>
                \o <<Atom(DigitSet \cup {"-"}, FALSE, 1, -1)>>, 7, 7),
      Regex(Lit(<<"n", "o", ":">>), 0, 0),
      NoRegex }

FieldNames == {"invoice_number", "invoice_date", "state"}

FieldSamples ==
    [name : FieldNames, regex : RegexSamples, date_format : {"", DMY}]

\* A dictionary has each key once.
DistinctNames(fields) ==
    \A i, j \in 1..Len(fields) : fields[i].name = fields[j].name => i = j

(***************************************************************************)
(* SpecHeaders: extract_headers applied to every text and rule set.        *)
(***************************************************************************)
InitHeaders ==
    /\ pc = "headers"
    /\ \E t \in HeaderTexts, n \in 0..MaxFields :
          \E fields \in [1..n -> FieldSamples] :
              /\ DistinctNames(fields)
              /\ input = [text |-> t, field_configs |-> fields]
    /\ result = NoResult
    /\ classified = <<>>
    /\ IdleClassifier /\ IdleDetector /\ IdleValidator /\ IdleSchema
    /\ IdleAssembler

ExtractHeaders ==
    /\ pc = "headers"
    /\ result' = extract_headers(input.text, input.field_configs)
    /\ pc' = "extracted"
    /\ UNCHANGED <<written, pdf, headers, built_items, input, df, summary_keywords, exclude_keywords, classified,
                   grand_total, invoice, validation, vendor_gst_in, construction>>

NextHeaders == ExtractHeaders

SpecHeaders == InitHeaders /\ [][NextHeaders]_vars

(***************************************************************************)
(* Claims about extract_headers (checked under SpecHeaders).               *)
(***************************************************************************)
\* Field i's pattern matches with a first group that is not blank, and its
\* date format, if any, parses the group's text.
FieldOk(i) ==
    LET f == input.field_configs[i]
        group == Strip(CaptureIgnoreCase(f.regex.pat, input.text, f.regex.from, f.regex.to))
    IN  /\ f.regex.given
        /\ f.regex.from # 0
        /\ CaptureIgnoreCase(f.regex.pat, input.text, 1, 0) # NoMatch
        /\ group # <<>>
        /\ f.date_format = DMY => strptime_DMY(group) # ValueError

FailedFields == {i \in 1..Len(input.field_configs) : ~FieldOk(i)}

\* C12: extract_headers returns a mapping with exactly the configured field
\* names iff every field is extracted; otherwise it raises
\* HeaderExtractionError naming the first field, in configuration order,
\* that failed.
C12_AllFieldsOrError ==
    pc = "extracted" =>
        IF FailedFields = {}
        THEN /\ result.kind = "ok"
             /\ Len(result.results) = Len(input.field_configs)
             /\ \A i \in 1..Len(result.results) :
                    result.results[i].name = input.field_configs[i].name
        ELSE result =
                HeaderExtractionError(input.field_configs[SetMin(FailedFields)].name)

(***************************************************************************)
(* text_table_parser.py: _extract_flipkart_headers                         *)
(***************************************************************************)
\* re.search with alternatives: regexes lists the alternatives in the
\* order the engine tries them, each beginning with a character that must
\* be there; the match is the leftmost one, and at that place the first
\* alternative that matches.  The result is group 1.
\* Group 1 of alternative alt matched at i, t the lengths its atoms take
GroupOf(alt, s, i, t) ==
    SubSeq(s, i + Sum(t, alt.from - 1), i + Sum(t, alt.to) - 1)

\* Group 1 of the first alternative that matches at i
GroupAt(regexes, s, starts, i) ==
    GroupOf(regexes[SetMin({j \in 1..Len(regexes) : i \in starts[j]})], s, i,
            Takes(regexes[SetMin({j \in 1..Len(regexes) : i \in starts[j]})].pat, s, i,
                  regexes[SetMin({j \in 1..Len(regexes) : i \in starts[j]})].atEnd))

\* Group 1 at the leftmost place of starts, the places where each
\* alternative matches
LeftmostGroup(regexes, s, starts) ==
    IF \A k \in 1..Len(regexes) : starts[k] = {} THEN NoMatch
    ELSE GroupAt(regexes, s, starts, SetMin(UNION {starts[k] : k \in 1..Len(regexes)}))

SearchGroup(regexes, s) ==
    LeftmostGroup(regexes, s,
                  [k \in 1..Len(regexes) |->
                      {i \in 1..Len(s) :
                          /\ Fits(regexes[k].pat[1], s[i])
                          /\ MatchesAt(regexes[k].pat, s, i, regexes[k].atEnd)}])

\* One alternative: the atoms from..to of pat are group 1.
Alt(pat, from, to, atEnd) == [pat |-> pat, from |-> from, to |-> to, atEnd |-> atEnd]

Upper1 == <<Atom(Range(UpperLetters), FALSE, 1, 1)>>

Lower1N == <<Atom(Range(LowerLetters), FALSE, 1, -1)>>

\* [A-Z][a-z]+ followed by k times \s+[A-Z][a-z]+
RECURSIVE ProperName(_)
ProperName(k) ==
    IF k = 0 THEN Upper1 \o Lower1N ELSE ProperName(k - 1) \o WS1 \o Upper1 \o Lower1N

\* line.split(',')
RECURSIVE SplitCommas(_)
SplitCommas(l) ==
    LET cs == {i \in 1..Len(l) : l[i] = ","}
    IN  IF cs = {} THEN <<l>>
        ELSE <<SubSeq(l, 1, SetMin(cs) - 1)>>
             \o SplitCommas(SubSeq(l, SetMin(cs) + 1, Len(l)))

\* Sold\s*By
SoldBy == Lit(<<"S","o","l","d">>) \o WS0 \o Lit(<<"B","y">>)

\* Strategy 1 for the vendor name: Sold\s*By\s*:\s*([^,\n]+), stripped;
\* NoMatch when the pattern does not match (lines 82-84)
VendorInline(t) ==
    LET g == SearchGroup(<<Alt(SoldBy \o WS0 \o Lit(<<":">>) \o WS0
                               \o <<Atom({",", "\n"}, TRUE, 1, -1)>>, 11, 11, FALSE)>>, t)
    IN  IF g = NoMatch THEN NoMatch ELSE Strip(g)

\* Strategy 2: the line after the first "Sold By" line, up to its first
\* comma (lines 86-91)
VendorNextLine(lines) ==
    LET hits == {i \in 1..Len(lines) : ReSearch(SoldBy, lines[i])}
    IN  IF hits = {} \/ SetMin(hits) + 1 > Len(lines) THEN <<>>
        ELSE Strip(SplitCommas(Strip(lines[SetMin(hits) + 1]))[1])

\* headers["vendor_name"] (lines 79-93)
vendor_name_of(t) ==
    LET inline == VendorInline(t)
    IN  IF inline # NoMatch THEN inline ELSE VendorNextLine(SplitLines(t))

\* (?:OD\d+\s+)?([A-Z][a-z]+(?:\s+[A-Z][a-z]+)+), for names of up to four
\* words: with the order number first, the longer name first (line 117)
NamePatterns ==
    LET od == Lit(<<"O","D">>) \o DIGITS1 \o WS1
    IN  [k \in 1..6 |->
            IF k <= 3 THEN Alt(od \o ProperName(4 - k), 5, 4 + 2 + 3 * (4 - k), FALSE)
            ELSE Alt(ProperName(7 - k), 1, 2 + 3 * (7 - k), FALSE)]

\* str.split(): the words of s
Words(s) ==
    LET spans == WordSpans(s, 1)
    IN  [i \in 1..Len(spans) |-> SubSeq(s, spans[i].from, spans[i].to)]

\* The first half of the words when the name has four words or more and
\* its two halves are the same, the name otherwise
FirstHalfIfTwice(name, words) ==
    IF /\ Len(words) >= 4
       /\ JoinBlank(SubSeq(words, 1, Len(words) \div 2))
            = JoinBlank(SubSeq(words, Len(words) \div 2 + 1, Len(words)))
    THEN JoinBlank(SubSeq(words, 1, Len(words) \div 2))
    ELSE name

\* The first half of a name written twice (lines 121-127)
Undoubled(name) == FirstHalfIfTwice(name, Words(name))

\* The name found on the two lines after "Bill To" line i, "" if none
\* The first value that is not "", "" when there is none
FirstTruthy(values) ==
    IF \A i \in 1..Len(values) : values[i] = <<>> THEN <<>>
    ELSE values[SetMin({i \in 1..Len(values) : values[i] # <<>>})]

\* The name a match gives: stripped and undoubled, "" without a match
NameOrEmpty(name) == IF name = NoMatch THEN <<>> ELSE Undoubled(Strip(name))

\* The name found in line l, "" if none (lines 117-127)
NameIn(l) == NameOrEmpty(SearchGroup(NamePatterns, l))

NameAfter(lines, i) ==
    FirstTruthy([k \in 1..2 |->
                    IF i + k > Len(lines) THEN <<>> ELSE NameIn(Strip(lines[i + k]))])

\* Bill\s*To, letters lowered for re.IGNORECASE
BillTo == Lit(<<"b","i","l","l">>) \o WS0 \o Lit(<<"t","o">>)

ShipTo == Lit(<<"s","h","i","p">>) \o WS0 \o Lit(<<"t","o">>)

\* Strategy 1 for the customer name (lines 111-130)
CustomerAfterBillTo(lines) ==
    FirstTruthy([i \in 1..Len(lines) |->
                    IF ReSearch(BillTo, Lower(lines[i])) THEN NameAfter(lines, i)
                    ELSE <<>>])

\* ^[A-Z][a-z]+(?:\s+[A-Z][a-z]+)*$ for names of up to four words (line 141)
IsProperName(candidate) ==
    \E k \in 0..3 : MatchesAt(ProperName(k), candidate, 1, TRUE)

\* Strategy 2: the second comma-separated part of the first line that
\* holds the vendor name and has a proper name there (lines 134-143)
CustomerInline(lines, vendor_name) ==
    LET candidate(i) == Strip(SplitCommas(lines[i])[2])
        hits == {i \in 1..Len(lines) :
                    /\ Contains(lines[i], vendor_name)
                    /\ Len(SplitCommas(lines[i])) >= 2
                    /\ candidate(i) # <<>> /\ IsProperName(candidate(i))}
    IN  IF vendor_name = <<>> \/ hits = {} THEN <<>> ELSE candidate(SetMin(hits))

Unknown == <<"U","n","k","n","o","w","n">>

\* headers["customer_name"] (lines 108-145)
customer_name_of(t, vendor_name) ==
    LET lines == SplitLines(t)
        after == CustomerAfterBillTo(lines)
        inline == CustomerInline(lines, vendor_name)
    IN  IF after # <<>> THEN after ELSE IF inline # <<>> THEN inline ELSE Unknown

\* state_codes (lines 150-159), in dictionary order
state_codes ==
    << [code |-> <<"M", "H">>, name |-> <<"M", "a", "h", "a", "r", "a", "s", "h", "t", "r", "a">>],
       [code |-> <<"K", "A">>, name |-> <<"K", "a", "r", "n", "a", "t", "a", "k", "a">>],
       [code |-> <<"D", "L">>, name |-> <<"D", "e", "l", "h", "i">>],
       [code |-> <<"U", "P">>, name |-> <<"U", "t", "t", "a", "r", " ", "P", "r", "a", "d", "e", "s", "h">>],
       [code |-> <<"T", "N">>, name |-> <<"T", "a", "m", "i", "l", " ", "N", "a", "d", "u">>],
       [code |-> <<"G", "J">>, name |-> <<"G", "u", "j", "a", "r", "a", "t">>],
       [code |-> <<"R", "J">>, name |-> <<"R", "a", "j", "a", "s", "t", "h", "a", "n">>],
       [code |-> <<"A", "P">>, name |-> <<"A", "n", "d", "h", "r", "a", " ", "P", "r", "a", "d", "e", "s", "h">>],
       [code |-> <<"T", "S">>, name |-> <<"T", "e", "l", "a", "n", "g", "a", "n", "a">>],
       [code |-> <<"K", "L">>, name |-> <<"K", "e", "r", "a", "l", "a">>],
       [code |-> <<"W", "B">>, name |-> <<"W", "e", "s", "t", " ", "B", "e", "n", "g", "a", "l">>],
       [code |-> <<"H", "R">>, name |-> <<"H", "a", "r", "y", "a", "n", "a">>],
       [code |-> <<"P", "B">>, name |-> <<"P", "u", "n", "j", "a", "b">>],
       [code |-> <<"B", "R">>, name |-> <<"B", "i", "h", "a", "r">>],
       [code |-> <<"O", "R">>, name |-> <<"O", "d", "i", "s", "h", "a">>],
       [code |-> <<"G", "A">>, name |-> <<"G", "o", "a">>],
       [code |-> <<"M", "P">>, name |-> <<"M", "a", "d", "h", "y", "a", " ", "P", "r", "a", "d", "e", "s", "h">>],
       [code |-> <<"C", "G">>, name |-> <<"C", "h", "h", "a", "t", "t", "i", "s", "g", "a", "r", "h">>],
       [code |-> <<"J", "H">>, name |-> <<"J", "h", "a", "r", "k", "h", "a", "n", "d">>],
       [code |-> <<"U", "K">>, name |-> <<"U", "t", "t", "a", "r", "a", "k", "h", "a", "n", "d">>],
       [code |-> <<"H", "P">>, name |-> <<"H", "i", "m", "a", "c", "h", "a", "l", " ", "P", "r", "a", "d", "e", "s", "h">>],
       [code |-> <<"A", "S">>, name |-> <<"A", "s", "s", "a", "m">>] >>

\* The first state name of the table found in line l, "" if none
StateIn(l) ==
    LET ks == {k \in 1..Len(state_codes) : Contains(l, state_codes[k].name)}
    IN  IF ks = {} THEN <<>> ELSE state_codes[SetMin(ks)].name

\* Strategy A: a state name in the twelve lines from the first
\* "Bill To" / "Ship To" line on (lines 164-179)
StateNearBillTo(lines) ==
    LET marks == {i \in 1..Len(lines) :
                     ReSearch(BillTo, Lower(lines[i])) \/ ReSearch(ShipTo, Lower(lines[i]))}
        js == {j \in 1..Len(lines) :
                  /\ marks # {} /\ j >= SetMin(marks) /\ j < SetMin(marks) + 12
                  /\ StateIn(lines[j]) # <<>>}
    IN  IF js = {} THEN <<>> ELSE StateIn(lines[SetMin(js)])

\* re.findall(r'IN-([A-Z]{2})', text): the places of the matches from
\* position i on, none overlapping the one before (line 185)
RECURSIVE StateCodesFrom(_, _)
StateCodesFrom(t, i) ==
    LET at == {j \in i..(Len(t) - 4) :
                  /\ SubSeq(t, j, j + 2) = <<"I","N","-">>
                  /\ t[j + 3] \in Range(UpperLetters) /\ t[j + 4] \in Range(UpperLetters)}
    IN  IF at = {} THEN <<>>
        ELSE <<SubSeq(t, SetMin(at) + 3, SetMin(at) + 4)>> \o StateCodesFrom(t, SetMin(at) + 5)

\* Strategy B: the last IN-XX code, through the code table (lines 185-188)
StateFromCode(t) ==
    LET state_matches == StateCodesFrom(t, 1)
        last_code == state_matches[Len(state_matches)]
        ks == {k \in 1..Len(state_codes) : state_codes[k].code = last_code}
    IN  IF state_matches = <<>> THEN <<>>
        ELSE IF ks = {} THEN last_code ELSE state_codes[SetMin(ks)].name

\* Strategy C: the state name found in the text that comes last in the
\* table (lines 191-194)
StateAnywhere(t) ==
    LET ks == {k \in 1..Len(state_codes) : Contains(t, state_codes[k].name)}
    IN  IF ks = {} THEN <<>> ELSE state_codes[SetMax(ks)].name

\* headers["state"] (lines 162-194)
state_of(t) ==
    LET near == StateNearBillTo(SplitLines(t))
        coded == StateFromCode(t)
        anywhere == StateAnywhere(t)
    IN  IF near # <<>> THEN near ELSE IF coded # <<>> THEN coded
        ELSE IF anywhere # <<>> THEN anywhere ELSE Unknown

Invoice == Lit(<<"I","n","v","o","i","c","e">>)

ColonOrHash == <<Atom({":", "#"}, FALSE, 0, 1)>>

NonBlank1N == <<Atom(Whitespace, TRUE, 1, -1)>>

DigitsN(n) == <<Atom(DigitSet, FALSE, n, n)>>

GstinClass == DigitSet \cup Range(UpperLetters)

\* Invoice\s*(?:No|Number)\s*[:#]?\s*(\S+)  (lines 55-56)
invoice_number_of(t) ==
    LET g == SearchGroup(
                << Alt(Invoice \o WS0 \o Lit(<<"N","o">>) \o WS0 \o ColonOrHash \o WS0
                       \o NonBlank1N, 14, 14, FALSE),
                   Alt(Invoice \o WS0 \o Lit(<<"N","u","m","b","e","r">>) \o WS0
                       \o ColonOrHash \o WS0 \o NonBlank1N, 18, 18, FALSE) >>, t)
    IN  IF g = NoMatch THEN <<>> ELSE Strip(g)

\* Invoice\s*Date\s*[:#]?\s*(\d{2}-\d{2}-\d{4}): a date, the matched text
\* when it is no date, "" when there is no match (lines 60-68)
invoice_date_of(t) ==
    LET g == SearchGroup(
                << Alt(Invoice \o WS0 \o Lit(<<"D","a","t","e">>) \o WS0 \o ColonOrHash
                       \o WS0 \o DigitsN(2) \o Lit(<<"-">>) \o DigitsN(2) \o Lit(<<"-">>)
                       \o DigitsN(4), 16, 20, FALSE) >>, t)
    IN  IF g = NoMatch THEN [kind |-> "str", text |-> <<>>]
        ELSE IF strptime_DMY(Strip(g)) = ValueError THEN [kind |-> "str", text |-> g]
        ELSE strptime_DMY(Strip(g))

\* Order\s*(?:Id|ID)\s*[:#]?\s*(OD\d+), else (OD\d{10,})  (lines 72-76)
order_id_of(t) ==
    LET order == Lit(<<"O","r","d","e","r">>) \o WS0
        od == Lit(<<"O","D">>)
        g == SearchGroup(
                << Alt(order \o Lit(<<"I","d">>) \o WS0 \o ColonOrHash \o WS0
                       \o od \o DIGITS1, 12, 14, FALSE),
                   Alt(order \o Lit(<<"I","D">>) \o WS0 \o ColonOrHash \o WS0
                       \o od \o DIGITS1, 12, 14, FALSE) >>, t)
        g2 == SearchGroup(<<Alt(od \o <<Atom(DigitSet, FALSE, 10, -1)>>, 1, 3, FALSE)>>, t)
    IN  IF g # NoMatch THEN Strip(g) ELSE IF g2 # NoMatch THEN Strip(g2) ELSE <<>>

\* GSTIN?\s*[-:#]?\s*(the GSTIN shape), else GST\s*[:#]?\s*([0-9A-Z]{15}),
\* else "UNREGISTERED" (lines 97-102)
vendor_gst_of(t) ==
    LET up(n) == <<Atom(Range(UpperLetters), FALSE, n, n)>>
        any1 == <<Atom(GstinClass, FALSE, 1, 1)>>
        gst == Lit(<<"G","S","T">>)
        g == SearchGroup(
                << Alt(gst \o Lit(<<"I">>) \o <<Atom({"N"}, FALSE, 0, 1)>> \o WS0
                       \o <<Atom({"-", ":", "#"}, FALSE, 0, 1)>> \o WS0
                       \o DigitsN(2) \o up(5) \o DigitsN(4) \o up(1) \o any1 \o up(1) \o any1,
                       9, 15, FALSE) >>, t)
        g2 == SearchGroup(
                << Alt(gst \o WS0 \o ColonOrHash \o WS0
                       \o <<Atom(GstinClass, FALSE, 15, 15)>>, 7, 7, FALSE) >>, t)
    IN  IF g # NoMatch THEN Strip(g) ELSE IF g2 # NoMatch THEN Strip(g2) ELSE UNREGISTERED

\* _extract_flipkart_headers(text)
_extract_flipkart_headers(t) ==
    LET vendor_name == vendor_name_of(t)
    IN
    [kind |-> "headers",
     invoice_number |-> invoice_number_of(t),
     invoice_date |-> invoice_date_of(t),
     order_id |-> order_id_of(t),
     vendor_name |-> vendor_name,
     vendor_gst |-> vendor_gst_of(t),
     customer_name |-> customer_name_of(t, vendor_name),
     state |-> state_of(t)]

(***************************************************************************)
(* text_table_parser.py: the grand total, the page search and              *)
(* extract_flipkart_data                                                   *)
(***************************************************************************)
\* An alternative whose group 1 is the pattern group, after prefix.
AltGroup(prefix, group) ==
    Alt(prefix \o group, Len(prefix) + 1, Len(prefix) + Len(group), FALSE)

\* ([\d,]+\.?\d*)
AmountGroup ==
    << Atom(Range(Digits) \cup {","}, FALSE, 1, -1), Atom({"."}, FALSE, 0, 1),
       Atom(Range(Digits), FALSE, 0, -1) >>

\* Grand\s*Total\s*(?:Rs\.?|INR|<rupee>)?\s*([\d,]+\.?\d*) under re.IGNORECASE,
\* written in lower case: the optional currency as the alternatives the
\* engine tries, in its order, the empty one last.
GrandTotalPattern ==
    LET head == Lit(<<"g","r","a","n","d">>) \o WS0 \o Lit(<<"t","o","t","a","l">>) \o WS0
    IN  << AltGroup(head \o Lit(<<"r","s">>) \o <<Atom({"."}, FALSE, 0, 1)>> \o WS0, AmountGroup),
           AltGroup(head \o Lit(<<"i","n","r">>) \o WS0, AmountGroup),
           AltGroup(head \o Lit(<<RUPEE>>) \o WS0, AmountGroup),
           AltGroup(head \o WS0, AmountGroup) >>

\* TOTAL\s*PRICE:\s*([\d,]+\.?\d*) under re.IGNORECASE
TotalPricePattern ==
    << AltGroup(Lit(<<"t","o","t","a","l">>) \o WS0 \o Lit(<<"p","r","i","c","e",":">>) \o WS0,
                AmountGroup) >>

\* _extract_flipkart_grand_total(text): the first pattern whose first
\* match parses to a total above zero.
_extract_flipkart_grand_total(t) ==
    LET low == Lower(t)
        first == SearchGroup(GrandTotalPattern, low)
        second == SearchGroup(TotalPricePattern, low)
    IN  IF first # NoMatch /\ DecGt(parse_decimal(first), Dec(0, 0, 0))
        THEN [kind |-> "ok", total |-> parse_decimal(first)]
        ELSE IF second # NoMatch /\ DecGt(parse_decimal(second), Dec(0, 0, 0))
        THEN [kind |-> "ok", total |-> parse_decimal(second)]
        ELSE TableExtractionError

\* The test of _find_product_invoice_page on one page (lines 40-44)
IsProductInvoicePage(t) ==
    /\ Contains(t, <<"T","a","x"," ","I","n","v","o","i","c","e">>)
    /\ \/ Contains(t, <<"T","O","T","A","L"," ","P","R","I","C","E">>)
       \/ Contains(t, <<"G","r","a","n","d"," ","T","o","t","a","l">>)
       \/ Contains(t, <<"T","o","t","a","l"," ","i","t","e","m","s">>)
       \/ (Contains(t, <<"O","r","d","e","r">>) /\ Contains(t, <<"O","D">>))

\* _find_product_invoice_page(page_texts): the last such page, or None
_find_product_invoice_page(page_texts) ==
    LET pages == {i \in 1..Len(page_texts) : IsProductInvoicePage(page_texts[i])}
    IN  IF pages = {} THEN None ELSE page_texts[SetMax(pages)]

\* extract_flipkart_data(full_text, page_texts, config): the dictionary
\* returned or the error raised; the headers, the line items and the grand
\* total are extracted in this order.
FlipkartData(hdrs, line_items_data, total) ==
    IF line_items_data.kind # "ok" THEN TableExtractionError
    ELSE IF total.kind # "ok" THEN TableExtractionError
    ELSE [kind |-> "ok", headers |-> hdrs,
          line_items |-> line_items_data.line_items,
          grand_total_raw |-> total.total]

\* Lines 25-28 on the page found
ExtractInvoicePage(invoice_text) ==
    IF invoice_text = None THEN TableExtractionError
    ELSE FlipkartData(_extract_flipkart_headers(invoice_text),
                      _extract_flipkart_line_items(invoice_text),
                      _extract_flipkart_grand_total(invoice_text))

extract_flipkart_data(page_texts) ==
    ExtractInvoicePage(_find_product_invoice_page(page_texts))

(***************************************************************************)
(* Inputs of the free-text header extraction: page texts made of the       *)
(* kinds of line an invoice page carries above its table.                  *)
(***************************************************************************)
MaxHeaderLines == 2

HeaderLineSamples ==
    { <<"S", "o", "l", "d", " ", "B", "y", ":", " ", "A", "c", "m", "e", " ", ",">>,
      <<"S", "o", "l", "d", " ", "B", "y", ":", " ", ",">>,
      <<"S", "o", "l", "d", " ", "B", "y", " ", "B", "i", "l", "l", " ", "T", "o">>,
      <<"A", "c", "m", "e", ",", " ", "R", "a", "v", "i", " ", "K", "u", "m", "a", "r", " ", ",", " ", "G", "o", "a">>,
      <<"O", "D", "1", "2", " ", "R", "a", "v", "i", " ", "K", "u", "m", "a", "r", " ", "R", "a", "v", "i", " ", "K", "u", "m", "a", "r">>,
      <<"S", "h", "i", "p", " ", "T", "o", " ", "I", "N", "-", "K", "A">>,
      <<"D", "e", "l", "h", "i", " ", "I", "N", "-", "X", "X">>,
      <<"I", "n", "v", "o", "i", "c", "e", " ", "N", "o", ":", " ", "F", "1", " ", "I", "n", "v", "o", "i", "c", "e", " ", "D", "a", "t", "e", ":", " ", "0", "5", "-", "1", "1", "-", "2", "0", "2", "4">>,
      <<"G", "S", "T", "I", "N", ":", " ", "2", "9", "A", "B", "C", "D", "E", "1", "2", "3", "4", "F", "1", "Z", "5">> }

(***************************************************************************)
(* SpecFlipkartHeaders: _extract_flipkart_headers applied to every text.   *)
(***************************************************************************)
InitFlipkartHeaders ==
    /\ pc = "flipkart_headers"
    /\ \E n \in 0..MaxHeaderLines :
          \E ls \in [1..n -> HeaderLineSamples] : input = JoinLines(ls)
    /\ result = NoResult
    /\ classified = <<>>
    /\ IdleClassifier /\ IdleDetector /\ IdleValidator /\ IdleSchema
    /\ IdleAssembler

ExtractFlipkartHeaders ==
    /\ pc = "flipkart_headers"
    /\ result' = _extract_flipkart_headers(input)
    /\ pc' = "flipkart_headers_done"
    /\ UNCHANGED <<written, pdf, headers, built_items, input, df, summary_keywords, exclude_keywords, classified,
                   grand_total, invoice, validation, vendor_gst_in, construction>>

NextFlipkartHeaders == ExtractFlipkartHeaders

SpecFlipkartHeaders == InitFlipkartHeaders /\ [][NextFlipkartHeaders]_vars

(***************************************************************************)
(* Ordered fallback of the free-text header strategies.                    *)
(***************************************************************************)
FirstNonEmpty(values, default) ==
    LET ks == {k \in 1..Len(values) : values[k] # <<>>}
    IN  IF ks = {} THEN default ELSE values[SetMin(ks)]

\* C19: for vendor name, customer name and state the value returned is the
\* value of the highest-priority strategy that yields a non-empty value
\* (vendor: inline "Sold By:", then the line after "Sold By"; customer: the
\* name after "Bill To", then the inline name; state: (A) a state name after
\* the first "Bill To"/"Ship To" marker, (B) the last IN-XX code, (C) a
\* state name anywhere), and the default when no strategy yields one.
C19_OrderedFallback ==
    pc = "flipkart_headers_done" =>
        LET lines == SplitLines(input)
            inline == VendorInline(input)
        IN  /\ result.vendor_name
                   = FirstNonEmpty(<<IF inline = NoMatch THEN <<>> ELSE inline,
                                     VendorNextLine(lines)>>, <<>>)
            /\ result.customer_name
                   = FirstNonEmpty(<<CustomerAfterBillTo(lines),
                                     CustomerInline(lines, result.vendor_name)>>, Unknown)
            /\ result.state
                   = FirstNonEmpty(<<StateNearBillTo(lines), StateFromCode(input),
                                     StateAnywhere(input)>>, Unknown)

(***************************************************************************)
(* main.py: the two pipelines.  A header value is a text                   *)
(* [kind |-> "str", text], a date [kind |-> "date", year, month, day] or   *)
(* None; a header dictionary is a function from its keys to such values.   *)
(***************************************************************************)
Str(text) == [kind |-> "str", text |-> text]

NoneValue == [kind |-> "None"]

\* An error a run ends with
Failure(kind) == [kind |-> kind]

\* re.sub(pat, '', s): every match of pat, leftmost first, taken out
RECURSIVE ReSub(_, _)
ReSub(pat, s) ==
    LET starts == {i \in 1..Len(s) : Fits(pat[1], s[i]) /\ MatchesAt(pat, s, i, FALSE)}
    IN  IF starts = {} THEN s
        ELSE LET i == SetMin(starts)
                 n == Sum(Takes(pat, s, i, FALSE), Len(pat))
             IN  SubSeq(s, 1, i - 1) \o ReSub(pat, SubSeq(s, i + n, Len(s)))

\* \(\d+\)
ParenNumber == Lit(<<"(">>) \o DIGITS1 \o Lit(<<")">>)

\* IN-\w+
StateCode == Lit(<<"I","N","-">>) \o <<Atom(AlphaNum \cup {"_"}, FALSE, 1, -1)>>

\* str.rstrip(',')
RStripCommas(s) ==
    LET keep == {i \in 1..Len(s) : s[i] # ","}
    IN  IF keep = {} THEN <<>> ELSE SubSeq(s, 1, SetMax(keep))

\* header_extractor.extract_state(raw_state)
extract_state(raw_state) == Strip(ReSub(ParenNumber, raw_state))

\* The dictionary extract_headers returns
HeaderDict(results) ==
    [name \in {results[i].name : i \in 1..Len(results)} |->
        results[CHOOSE i \in 1..Len(results) : results[i].name = name].value]

\* Decimal values pydantic takes for a Decimal field: the finite ones.
IsFinite(d) == d.kind = "fin"

\* schema.LineItem(...): the record, or pydantic's ValidationError
LineItemModel(item) ==
    IF \A f \in DOMAIN item : f = "description" \/ IsFinite(item[f])
    THEN [kind |-> "ok", item |-> item]
    ELSE Failure("ValidationError")

\* The LineItem(...) call of build_line_items_zomato on one row
ZomatoItem(row_data) ==
    LineItemModel(
        [description |-> Strip(Get(row_data, "description", <<>>)),
         gross_value |-> parse_decimal(Get(row_data, "gross_value", <<"0">>)),
         discount |-> parse_decimal(Get(row_data, "discount", <<"0">>)),
         net_value |-> parse_decimal(Get(row_data, "net_value", <<"0">>)),
         cgst_rate |-> parse_percentage(Get(row_data, "cgst_rate", <<"0">>)),
         cgst_amount |-> parse_decimal(Get(row_data, "cgst_amount", <<"0">>)),
         sgst_rate |-> parse_percentage(Get(row_data, "sgst_rate", <<"0">>)),
         sgst_amount |-> parse_decimal(Get(row_data, "sgst_amount", <<"0">>)),
         igst_rate |-> ZERO_00, igst_amount |-> ZERO_00,
         cess_rate |-> ZERO_00, cess_amount |-> ZERO_00,
         total |-> parse_decimal(Get(row_data, "total", <<"0">>))])

\* The LineItem(...) call of build_line_items_flipkart on one dictionary
FlipkartItem(item_data) ==
    LineItemModel(
        [description |-> Strip(Get(item_data, "description", <<>>)),
         gross_value |-> parse_decimal(Get(item_data, "gross_value", <<"0">>)),
         discount |-> parse_decimal(Get(item_data, "discount", <<"0">>)),
         net_value |-> parse_decimal(Get(item_data, "net_value", <<"0">>)),
         cgst_rate |-> ZERO_00, cgst_amount |-> ZERO_00,
         sgst_rate |-> ZERO_00, sgst_amount |-> ZERO_00,
         igst_rate |-> parse_percentage(Get(item_data, "igst_rate", <<"0">>)),
         igst_amount |-> parse_decimal(Get(item_data, "igst_amount", <<"0">>)),
         cess_rate |-> ZERO_00,
         cess_amount |-> parse_decimal(Get(item_data, "cess_amount", <<"0">>)),
         total |-> parse_decimal(Get(item_data, "total", <<"0">>))])

\* The list of the items built, or the first error raised while building
ItemsOrError(built) ==
    LET bad == {i \in 1..Len(built) : built[i].kind # "ok"}
    IN  IF bad # {} THEN built[SetMin(bad)]
        ELSE [kind |-> "ok", line_items |-> [i \in 1..Len(built) |-> built[i].item]]

\* build_line_items_zomato(classified_rows, column_mapping_inv)
build_line_items_zomato(classified_rows) ==
    LET rows == SelectSeq(classified_rows, LAMBDA e : e.row_type = ROW_TYPE_LINE_ITEM)
    IN  ItemsOrError([i \in 1..Len(rows) |-> ZomatoItem(rows[i].row)])

\* build_line_items_flipkart(items_data)
build_line_items_flipkart(items_data) ==
    ItemsOrError([i \in 1..Len(items_data) |-> FlipkartItem(items_data[i])])

\* pydantic's reading of a value for a date field: a date as it is, a text
\* in the form YYYY-MM-DD as that date, anything else an error.
DateField(value) ==
    IF value.kind = "date" THEN value
    ELSE IF /\ value.kind = "str" /\ Len(value.text) = 10
            /\ value.text[5] = "-" /\ value.text[8] = "-"
            /\ AllDigits(SubSeq(value.text, 1, 4))
            /\ AllDigits(SubSeq(value.text, 6, 7))
            /\ AllDigits(SubSeq(value.text, 9, 10))
         THEN strptime_DMY(SubSeq(value.text, 9, 10) \o <<"-">>
                           \o SubSeq(value.text, 6, 7) \o <<"-">>
                           \o SubSeq(value.text, 1, 4))
         ELSE ValueError

\* schema.ExtractedInvoice(**a): the record, the GSTValidationError that
\* validate_gst raises (it is not a ValueError, so pydantic lets it
\* through at once), or pydantic's ValidationError for the fields whose
\* value is not of the declared type.
ExtractedInvoice(a) ==
    LET date == DateField(a.invoice_date)
        typed == /\ \A f \in {"invoice_number", "vendor_name", "vendor_gst",
                              "customer_name", "state"} : a[f].kind = "str"
                 /\ date.kind = "date"
                 /\ a.order_id.kind \in {"str", "None"}
                 /\ IsFinite(a.grand_total_raw) /\ IsFinite(a.grand_total_rounded)
    IN  IF a.vendor_gst.kind = "str"
           /\ validate_gst(a.vendor_gst.text).kind = "GSTValidationError"
        THEN Failure("GSTValidationError")
        ELSE IF ~typed THEN Failure("ValidationError")
        ELSE [kind |-> "ok",
              invoice |->
                [invoice_number |-> a.invoice_number.text,
                 invoice_date |-> <<date.year, date.month, date.day>>,
                 vendor_name |-> a.vendor_name.text,
                 vendor_gst |-> validate_gst(a.vendor_gst.text).vendor_gst,
                 customer_name |-> a.customer_name.text,
                 state |-> a.state.text,
                 line_items |-> a.line_items,
                 grand_total_raw |-> a.grand_total_raw,
                 grand_total_rounded |-> a.grand_total_rounded,
                 order_id |-> a.order_id,
                 tax_type |-> a.tax_type]]

\* Steps 3 and 4 of run_pipeline_zomato (lines 120-130): the header
\* dictionary with its state cleaned, or the error raised.
CleanedState(d, raw_state) ==
    IF raw_state.kind # "str" THEN Failure("TypeError")
    ELSE [kind |-> "ok",
          headers |-> [name \in DOMAIN d \cup {"state"} |->
                          IF name = "state" THEN Str(extract_state(raw_state.text))
                          ELSE d[name]]]

\* headers.get("state", "")
StateOrEmpty(d) == IF "state" \in DOMAIN d THEN d["state"] ELSE Str(<<>>)

WithCleanState(d) == CleanedState(d, StateOrEmpty(d))

HeadersOf(extracted) ==
    IF extracted.kind # "ok" THEN Failure(extracted.kind)
    ELSE WithCleanState(HeaderDict(extracted.results))

HeadersZomato(t, field_configs) == HeadersOf(extract_headers(t, field_configs))

\* The header keys run_pipeline_zomato reads with headers[...], in the
\* order the call of ExtractedInvoice evaluates them (lines 157-161).
AssemblerKeys ==
    <<"invoice_number", "invoice_date", "vendor_name", "vendor_gst", "customer_name">>

\* An assembler that constructs the record whatever the item list holds.
AssembleZomatoUnchecked(hdrs, items, total) ==
    LET missing == {k \in 1..Len(AssemblerKeys) : AssemblerKeys[k] \notin DOMAIN hdrs}
    IN  IF missing # {} /\ (SetMin(missing) <= 4 \/ hdrs["vendor_gst"].kind = "str")
        THEN Failure("KeyError")
        ELSE IF hdrs["vendor_gst"].kind # "str" THEN Failure("AttributeError")
        ELSE ExtractedInvoice(
                [invoice_number |-> hdrs["invoice_number"],
                 invoice_date |-> hdrs["invoice_date"],
                 vendor_name |-> hdrs["vendor_name"],
                 vendor_gst |-> Str(Strip(hdrs["vendor_gst"].text)),
                 customer_name |-> hdrs["customer_name"],
                 state |-> hdrs["state"],
                 line_items |-> items,
                 grand_total_raw |-> total.raw,
                 grand_total_rounded |-> total.rounded,
                 order_id |-> NoneValue,
                 tax_type |-> "cgst_sgst"])

\* Lines 151-168 of run_pipeline_zomato: the emptiness check, then the
\* record; a key the header dictionary lacks is a KeyError, and .strip()
\* on a vendor_gst that is a date an AttributeError.
AssembleZomato(hdrs, items, total) ==
    IF Len(items) = 0 THEN Failure("NoLineItemsError")
    ELSE LET missing == {k \in 1..Len(AssemblerKeys) : AssemblerKeys[k] \notin DOMAIN hdrs}
         IN  IF missing # {} /\ (SetMin(missing) <= 4 \/ hdrs["vendor_gst"].kind = "str")
             THEN Failure("KeyError")
             ELSE IF hdrs["vendor_gst"].kind # "str" THEN Failure("AttributeError")
             ELSE ExtractedInvoice(
                     [invoice_number |-> hdrs["invoice_number"],
                      invoice_date |-> hdrs["invoice_date"],
                      vendor_name |-> hdrs["vendor_name"],
                      vendor_gst |-> Str(Strip(hdrs["vendor_gst"].text)),
                      customer_name |-> hdrs["customer_name"],
                      state |-> hdrs["state"],
                      line_items |-> items,
                      grand_total_raw |-> total.raw,
                      grand_total_rounded |-> total.rounded,
                      order_id |-> NoneValue,
                      tax_type |-> "cgst_sgst"])

\* Lines 213-218 of run_pipeline_flipkart: the state cleaned
CleanState(state_raw) ==
    LET cleaned == Strip(RStripCommas(Strip(ReSub(StateCode,
                        Strip(ReSub(ParenNumber, state_raw))))))
    IN  IF state_raw = <<>> \/ cleaned = <<>> THEN Unknown ELSE cleaned

\* Lines 220-233 of run_pipeline_flipkart with the default date format: a
\* non-empty text is parsed, and replaced by today's date when it cannot be.
ParseInvoiceDate(invoice_date, today) ==
    IF invoice_date.kind = "str" /\ invoice_date.text # <<>>
    THEN LET parsed == strptime_DMY(Strip(SplitCommas(invoice_date.text)[1]))
         IN  IF parsed = ValueError THEN today ELSE parsed
    ELSE invoice_date

\* The header dictionary of run_pipeline_flipkart after lines 208-233, the
\* local invoice_date in the place of the extracted one.
HeadersFlipkart(h, today) ==
    [invoice_number |-> Str(h.invoice_number),
     invoice_date |-> ParseInvoiceDate(h.invoice_date, today),
     order_id |-> Str(h.order_id),
     vendor_name |-> Str(h.vendor_name),
     vendor_gst |-> Str(h.vendor_gst),
     customer_name |-> Str(h.customer_name),
     state |-> Str(CleanState(h.state))]

\* Lines 239-260 of run_pipeline_flipkart: the emptiness check, the
\* rounded total, then the record.
AssembleFlipkart(hdrs, items, grand_total_raw) ==
    IF Len(items) = 0 THEN Failure("NoLineItemsError")
    ELSE ExtractedInvoice(
            [invoice_number |-> hdrs["invoice_number"],
             invoice_date |-> hdrs["invoice_date"],
             vendor_name |-> hdrs["vendor_name"],
             vendor_gst |-> Str(Strip(hdrs["vendor_gst"].text)),
             customer_name |-> hdrs["customer_name"],
             state |-> hdrs["state"],
             line_items |-> items,
             grand_total_raw |-> grand_total_raw,
             grand_total_rounded |-> Quantize2(grand_total_raw, ROUND_HALF_UP),
             order_id |-> hdrs["order_id"],
             tax_type |-> "igst"])

\* The errors main reports by their type (lines 337-339); any other
\* exception is reported as "Unexpected error" (lines 345-349).
ErrorTaxonomy ==
    { "PDFLoadError", "UnsupportedPDFError", "TableExtractionError",
      "HeaderExtractionError", "MissingFieldError", "GSTValidationError",
      "ArithmeticMismatchError", "NoLineItemsError" }

\* What main prints for a run that ended with the exception kind
Report(kind) ==
    [kind |-> kind,
     report |-> IF kind \in ErrorTaxonomy THEN "typed error" ELSE "unexpected error"]

(***************************************************************************)
(* Inputs of the pipelines.  The templates' YAML files are not part of the *)
(* source tree: the header rules, the keyword lists and the table camelot  *)
(* decodes are inputs, as are the page texts pdfplumber extracts and the   *)
(* day of the run.                                                         *)
(***************************************************************************)
MaxTableRows == 2

MaxPages == 1

\* no: *(\S+)
NumberRule(name) ==
    [name |-> name,
     regex |-> Regex(Lit(<<"n", "o", ":">>) \o <<Atom({" "}, FALSE, 0, -1)>>
                        \o <<Atom(Whitespace, TRUE, 1, -1)>>, 5, 5),
     date_format |-> ""]

\* date: *([\d-]+), with or without a date format
DateRule(name, date_format) ==
    [name |-> name,
     regex |-> Regex(Lit(<<"d", "a", "t", "e", ":">>) \o <<Atom({" "}, FALSE, 0, -1)>>
                        \o <<Atom(DigitSet \cup {"-"}, FALSE, 1, -1)>>, 7, 7),
     date_format |-> date_format]

\* A rule set with a rule for every field the assembler reads
FullRules ==
    << NumberRule("invoice_number"), DateRule("invoice_date", DMY),
       NumberRule("vendor_name"), NumberRule("vendor_gst"),
       NumberRule("customer_name"), NumberRule("state") >>

\* The rule set without the rule of one field
Without(rules, name) == SelectSeq(rules, LAMBDA r : r.name # name)

RuleSetSamples ==
    { FullRules,
      [FullRules EXCEPT ![2] = DateRule("invoice_date", "")],
      Without(FullRules, "invoice_number"),
      Without(FullRules, "vendor_gst"),
      Without(FullRules, "state") }

ZomatoTexts ==
    { <<"n", "o", ":", " ", "U", "N", "R", "E", "G", "I", "S", "T", "E", "R", "E", "D", " ", "d", "a", "t", "e", ":", " ", "3", "1", "-", "0", "1", "-", "2", "0", "2", "4">>,
      <<"n", "o", ":", " ", "A", "1", " ", "d", "a", "t", "e", ":", " ", "3", "1", "-", "0", "1", "-", "2", "0", "2", "4">>,
      <<"d", "a", "t", "e", ":", " ", "3", "1", "-", "0", "1", "-", "2", "0", "2", "4">> }

\* Rows of the decoded table: a line item, the total row, a line item
\* whose total is off by one and one whose total is no number.
ItemRow(total) ==
    [description |-> Pizza, gross_value |-> <<"1", "0", "0", ".", "0", "0">>,
     discount |-> <<"1", "0", ".", "0", "0">>, net_value |-> <<"9", "0", ".", "0", "0">>,
     cgst_rate |-> <<"2", ".", "5", "%">>, cgst_amount |-> <<"2", ".", "2", "5">>,
     sgst_rate |-> <<"2", ".", "5", "%">>, sgst_amount |-> <<"2", ".", "2", "5">>,
     total |-> total]

TotalRow ==
    [description |-> TotalValue, gross_value |-> <<>>, discount |-> <<>>,
     net_value |-> <<>>, cgst_rate |-> <<>>, cgst_amount |-> <<>>,
     sgst_rate |-> <<>>, sgst_amount |-> <<>>, total |-> Cell_94_50]

\* A row the summary keyword tags SUMMARY
SubtotalRow == [TotalRow EXCEPT !.description = <<"S", "u", "b", " ", "T", "o", "t", "a", "l">>]

ZomatoRows ==
    {ItemRow(Cell_94_50), ItemRow(<<"9", "5", ".", "5", "0">>), ItemRow(<<"N", "a", "N">>),
     TotalRow, SubtotalRow}

\* What extract_table returns or raises
TableSamples ==
    {TableExtractionError}
        \cup UNION {{[kind |-> "ok", df |-> d] : d \in [1..n -> ZomatoRows]} :
                        n \in 0..MaxTableRows}

ZomatoInputs ==
    [extraction_mode : {"lattice"}, text : ZomatoTexts, field_configs : RuleSetSamples,
     table : TableSamples, summary_keywords : {<<<<"s", "u", "b", " ", "t", "o", "t", "a", "l">>>>},
     exclude_keywords : {<<<<"t", "o", "t", "a", "l", " ", "v", "a", "l", "u", "e">>>>}]

\* The lines of a product invoice page
PageTemplate ==
    << <<"T", "a", "x", " ", "I", "n", "v", "o", "i", "c", "e">>,
       <<"I", "n", "v", "o", "i", "c", "e", " ", "N", "o", ":", " ", "F", "1", " ", "I", "n", "v", "o", "i", "c", "e", " ", "D", "a", "t", "e", ":", " ", "0", "5", "-", "1", "1", "-", "2", "0", "2", "4">>,
       <<"S", "o", "l", "d", " ", "B", "y", ":", " ", "A", "c", "m", "e", " ", ",">>,
       <<"B", "i", "l", "l", " ", "T", "o", " ", "S", "h", "i", "p", " ", "T", "o", " ", "I", "N", "-", "K", "A">>,
       <<"O", "D", "1", "2", " ", "R", "a", "v", "i", " ", "K", "u", "m", "a", "r", " ", "R", "a", "v", "i", " ", "K", "u", "m", "a", "r">>,
       <<"P", "r", "o", "d", "u", "c", "t", " ", "Q", "t", "y", " ", "T", "o", "t", "a", "l">>,
       <<"W", "i", "d", "g", "e", "t", " ", "1", " ", "1", "1", ".", "8", " ", "0", " ", "1", "0", ".", "0", " ", "1", ".", "8", " ", "1", "1", ".", "8">>,
       <<"G", "r", "a", "n", "d", " ", "T", "o", "t", "a", "l", " ", "1", "1", ".", "8">>,
       <<"G", "S", "T", "I", "N", ":", " ", "2", "9", "A", "B", "C", "D", "E", "1", "2", "3", "4", "F", "1", "Z", "5">> >>

\* Other lines a page can have in the place of a line of the template:
\* no invoice date, an impossible date, and an item whose total is off.
PageVariants ==
    { <<2, <<"I", "n", "v", "o", "i", "c", "e", " ", "N", "o", ":", " ", "F", "1">>>>,
      <<2, <<"I", "n", "v", "o", "i", "c", "e", " ", "N", "o", ":", " ", "F", "1", " ", "I", "n", "v", "o", "i", "c", "e", " ", "D", "a", "t", "e", ":", " ", "4", "5", "-", "1", "3", "-", "2", "0", "2", "4">>>>,
      <<7, <<"W", "i", "d", "g", "e", "t", " ", "1", " ", "1", "1", ".", "8", " ", "0", " ", "1", "0", ".", "0", " ", "1", ".", "8", " ", "1", "2", ".", "8">>>> }

\* The template, the template less one line, and the template with one
\* line replaced
PageSamples ==
    {JoinLines(PageTemplate)}
        \cup {JoinLines(SelectSeq([i \in 1..Len(PageTemplate) |->
                                      IF i = k THEN <<>> ELSE PageTemplate[i]],
                                  LAMBDA l : l # <<>>)) : k \in 1..Len(PageTemplate)}
        \cup {JoinLines([PageTemplate EXCEPT ![v[1]] = v[2]]) : v \in PageVariants}

Todays ==
    { [kind |-> "date", year |-> 2024, month |-> 11, day |-> 6],
      [kind |-> "date", year |-> 2024, month |-> 11, day |-> 7] }

FlipkartInputs ==
    UNION {[extraction_mode : {"text"}, page_texts : [1..n -> PageSamples],
            today : Todays] : n \in 0..MaxPages}

(***************************************************************************)
(* SpecPipeline: run_pipeline on a loaded document, up to the report of    *)
(* main.  The run is at "run_pipeline" before the extraction stages, at    *)
(* "assemble" when the line items are built, at "validate" when the record *)
(* is constructed, at "write" when it is validated, and at "exit" when     *)
(* main has reported the outcome.                                          *)
(***************************************************************************)
\* The values a run holds when a stage has raised
Halted(kind, hdrs, d, c, total) ==
    [pc |-> "exit", headers |-> hdrs, df |-> d, classified |-> c,
     grand_total |-> total, built_items |-> <<>>, result |-> Report(kind)]

\* The values a run holds when the line items are built
Extracted(hdrs, d, c, total, built) ==
    IF built.kind # "ok" THEN Halted(built.kind, hdrs, d, c, total)
    ELSE [pc |-> "assemble", headers |-> hdrs, df |-> d, classified |-> c,
          grand_total |-> total, built_items |-> built.line_items, result |-> NoResult]

\* A pipeline that looks at the line items before it looks for the total.
TotalAndItemsItemsFirst(hdrs, d, c, total) ==
    IF SelectSeq(c, LAMBDA e : e.row_type = ROW_TYPE_LINE_ITEM) = <<>>
    THEN Halted("NoLineItemsError", hdrs, d, c, NoTotal)
    ELSE IF total.kind # "ok" THEN Halted(total.kind, hdrs, d, c, NoTotal)
    ELSE Extracted(hdrs, d, c, total, build_line_items_zomato(c))

\* Steps 7 and 8 of run_pipeline_zomato (lines 143-148)
TotalAndItems(hdrs, d, c, total) ==
    IF total.kind # "ok" THEN Halted(total.kind, hdrs, d, c, NoTotal)
    ELSE Extracted(hdrs, d, c, total, build_line_items_zomato(c))

\* Steps 5 and 6 of run_pipeline_zomato (lines 132-141)
TableAndRows(inp, hdrs) ==
    IF inp.table.kind # "ok" THEN Halted(inp.table.kind, hdrs, <<>>, <<>>, NoTotal)
    ELSE TotalAndItems(hdrs, inp.table.df,
                       classify_rows(inp.table.df, inp.summary_keywords,
                                     inp.exclude_keywords),
                       detect_grand_total(
                           classify_rows(inp.table.df, inp.summary_keywords,
                                         inp.exclude_keywords)))

\* Steps 3 and 4, then the rest
AfterHeaders(inp, h) ==
    IF h.kind # "ok" THEN Halted(h.kind, NoHeaders, <<>>, <<>>, NoTotal)
    ELSE TableAndRows(inp, h.headers)

\* Steps 3 to 8 of run_pipeline_zomato (lines 120-148), stage by stage
ExtractionZomato(inp) == AfterHeaders(inp, HeadersZomato(inp.text, inp.field_configs))

\* Lines 208-237 of run_pipeline_flipkart on the data extracted
FlipkartLocals(extracted, today) ==
    IF extracted.kind # "ok" THEN Halted(extracted.kind, NoHeaders, <<>>, <<>>, NoTotal)
    ELSE Extracted(HeadersFlipkart(extracted.headers, today), <<>>, <<>>,
                   TotalOutcome("ok", extracted.grand_total_raw, ZERO_00),
                   build_line_items_flipkart(extracted.line_items))

\* Lines 197-237 of run_pipeline_flipkart
ExtractionFlipkart(inp) ==
    FlipkartLocals(extract_flipkart_data(inp.page_texts), inp.today)

\* The finally clause (lines 184-185, 276-277): the document is closed
\* when the run leaves the try block.
Finally(next_pc) == IF next_pc = "exit" THEN "closed" ELSE "open"

\* The run goes on with the values next
Become(next) ==
    /\ pc' = next.pc
    /\ headers' = next.headers
    /\ df' = next.df
    /\ classified' = next.classified
    /\ grand_total' = next.grand_total
    /\ built_items' = next.built_items
    /\ result' = next.result
    /\ pdf' = Finally(next.pc)

\* A run after run_pipeline has read the template and load_pdf has
\* returned the opened document (lines 118, 195, 287-296).
InitPipeline ==
    /\ pc = "run_pipeline"
    /\ input \in ZomatoInputs \cup FlipkartInputs
    /\ result = NoResult
    /\ classified = <<>>
    /\ IdleClassifier /\ IdleDetector /\ IdleValidator /\ IdleSchema
    /\ headers = NoHeaders /\ built_items = <<>>
    /\ pdf = "open"
    /\ written = NoInvoice

ExtractZomato ==
    /\ pc = "run_pipeline"
    /\ input.extraction_mode = "lattice"
    /\ \E next \in {ExtractionZomato(input)} : Become(next)
    /\ UNCHANGED <<written, input, summary_keywords, exclude_keywords, invoice, validation,
                   vendor_gst_in, construction>>

ExtractFlipkart ==
    /\ pc = "run_pipeline"
    /\ input.extraction_mode = "text"
    /\ \E next \in {ExtractionFlipkart(input)} : Become(next)
    /\ UNCHANGED <<written, input, summary_keywords, exclude_keywords, invoice, validation,
                   vendor_gst_in, construction>>

\* The run goes on with the record built, or ends with the error raised
Constructing(built) ==
    IF built.kind = "ok"
    THEN /\ invoice' = built.invoice
         /\ pc' = "validate"
         /\ UNCHANGED <<result, pdf>>
    ELSE /\ result' = Report(built.kind)
         /\ pc' = "exit"
         /\ pdf' = Finally("exit")
         /\ UNCHANGED invoice

\* Steps 8 (its check) and 9: the record is constructed or the run ends.
ConstructRecord ==
    /\ pc = "assemble"
    /\ \E built \in {IF input.extraction_mode = "text"
                     THEN AssembleFlipkart(headers, built_items, grand_total.raw)
                     ELSE AssembleZomato(headers, built_items, grand_total)} :
          Constructing(built)
    /\ UNCHANGED <<written, input, headers, built_items, df, summary_keywords,
                   exclude_keywords, classified, grand_total, validation,
                   vendor_gst_in, construction>>

\* A step 10 that goes on to the writer whatever validate_invoice raised.
ValidateRecordLenient ==
    /\ pc = "validate"
    /\ validation' = validate_invoice(invoice)
    /\ pc' = "write"
    /\ UNCHANGED <<result, pdf>>
    /\ UNCHANGED <<written, input, headers, built_items, df, summary_keywords,
                   exclude_keywords, classified, grand_total, invoice, vendor_gst_in,
                   construction>>

\* Step 10: validate_invoice(invoice)
ValidateRecord ==
    /\ pc = "validate"
    /\ validation' = validate_invoice(invoice)
    /\ IF validation'.kind = "ok"
       THEN pc' = "write" /\ UNCHANGED <<result, pdf>>
       ELSE pc' = "exit" /\ result' = Report(validation'.kind) /\ pdf' = Finally("exit")
    /\ UNCHANGED <<written, input, headers, built_items, df, summary_keywords,
                   exclude_keywords, classified, grand_total, invoice, vendor_gst_in,
                   construction>>

\* Step 11 and the success report of main (lines 332-335)
WriteExcel ==
    /\ pc = "write"
    /\ written' = invoice
    /\ result' = [kind |-> "ok", report |-> "success"]
    /\ pc' = "exit"
    /\ pdf' = Finally("exit")
    /\ UNCHANGED <<input, headers, built_items, df, summary_keywords, exclude_keywords,
                   classified, grand_total, invoice, validation, vendor_gst_in,
                   construction>>

NextPipeline ==
    \/ ExtractZomato
    \/ ExtractFlipkart
    \/ ConstructRecord
    \/ ValidateRecord
    \/ WriteExcel

SpecPipeline == InitPipeline /\ [][NextPipeline]_vars

(***************************************************************************)
(* SpecBuild: build_line_items_zomato applied to classified rows of every  *)
(* tag, cells that are no finite number included.                          *)
(***************************************************************************)
BuildRowSamples ==
    { ItemRow(Cell_94_50),
      ItemRow(<<"N", "a", "N">>),
      [description |-> <<" ">> \o Pizza],
      TotalRow }

InitBuild ==
    /\ pc = "build"
    /\ IdleCall
    /\ \E n \in 0..MaxClassified :
          \E t \in [1..n -> ROW_TYPES], r \in [1..n -> BuildRowSamples] :
              classified = ClassifiedOf(t, r)
    /\ IdleClassifier /\ IdleDetector /\ IdleValidator /\ IdleSchema
    /\ IdleAssembler

\* Step 8 of run_pipeline_zomato (line 149)
BuildLineItemsZomato ==
    /\ pc = "build"
    /\ result' = build_line_items_zomato(classified)
    /\ pc' = "built"
    /\ UNCHANGED <<written, pdf, headers, built_items, input, df, summary_keywords, exclude_keywords,
                   classified, grand_total, invoice, validation, vendor_gst_in,
                   construction>>

NextBuild == BuildLineItemsZomato

SpecBuild == InitBuild /\ [][NextBuild]_vars

(***************************************************************************)
(* Claims about build_line_items_zomato (checked under SpecBuild).         *)
(***************************************************************************)
\* The places of the LINE_ITEM-tagged rows, in row order
LineItemPlaces ==
    {i \in 1..Len(classified) : classified[i].row_type = ROW_TYPE_LINE_ITEM}

\* The place of the k-th LINE_ITEM-tagged row
RECURSIVE PlaceOf(_)
PlaceOf(k) ==
    IF k = 1 THEN SetMin(LineItemPlaces)
    ELSE SetMin({i \in LineItemPlaces : i > PlaceOf(k - 1)})

\* C24: build_line_items_zomato returns one LineItem per LINE_ITEM-tagged
\* row, in row order, each built from its row; SUMMARY- and TOTAL-tagged
\* rows contribute nothing.
C24_OnlyLineItemRows ==
    pc = "built" =>
        /\ result.kind = "ok"
        /\ Len(result.line_items) = Cardinality(LineItemPlaces)
        /\ \A k \in 1..Len(result.line_items) :
              /\ result.line_items[k].description
                    = Strip(Get(classified[PlaceOf(k)].row, "description", <<>>))
              /\ result.line_items[k].total
                    = parse_decimal(Get(classified[PlaceOf(k)].row, "total", <<"0">>))

(***************************************************************************)
(* Claims about the two pipelines (checked under SpecPipeline).            *)
(***************************************************************************)
\* The step of a run that stands at the emptiness check with no line item
EmptyAtCheck == pc = "assemble" /\ built_items = <<>>

\* C11: in both pipelines a run whose list of built line items is empty
\* ends with NoLineItemsError before any record is constructed, so every
\* record that is constructed has at least one line item.
C11_NoRecordWithoutItems ==
    /\ [](invoice # NoInvoice => Len(invoice.line_items) >= 1)
    /\ [][EmptyAtCheck =>
            /\ pc' = "exit"
            /\ result' = Report("NoLineItemsError")
            /\ invoice' = NoInvoice]_vars

\* A run of the ruled-table pipeline whose table holds rows, none of them a
\* line item, has ended with NoLineItemsError and no record.
C11_Witness ==
    /\ pc = "exit"
    /\ input.extraction_mode = "lattice"
    /\ classified # <<>>
    /\ grand_total # NoTotal
    /\ built_items = <<>>
    /\ result = Report("NoLineItemsError")
    /\ invoice = NoInvoice

\* C21: write_excel is invoked only with a record that was constructed and
\* that validate_invoice accepted, the same record; a run that ends with an
\* error has written nothing.
C21_OnlyValidatedRecordWritten ==
    /\ [](written # NoInvoice =>
            /\ written = invoice
            /\ validation = validate_invoice(written)
            /\ validation.kind = "ok"
            /\ result.kind = "ok")
    /\ []((pc = "exit" /\ result.kind # "ok") => written = NoInvoice)
    /\ [][written' # written => (pc = "write" /\ invoice # NoInvoice /\ invoice' = invoice)]_vars

\* A run of the free-text pipeline has written its record.
C21_Witness ==
    /\ pc = "exit"
    /\ written # NoInvoice
    /\ written.tax_type = "igst"
    /\ Len(written.line_items) >= 1

\* The end of a run: the record written, or the kind of the error
RunEnd(kind, record) ==
    [kind |-> kind, invoice |-> IF kind = "ok" THEN record ELSE NoInvoice]

\* The end of a free-text run whose record is built or refused
OutcomeOfRecord(built) ==
    IF built.kind # "ok" THEN RunEnd(built.kind, NoInvoice)
    ELSE RunEnd(validate_invoice(built.invoice).kind, built.invoice)

\* The end of a free-text run whose line items are built or refused
OutcomeOfExtraction(ext) ==
    IF ext.pc = "exit" THEN RunEnd(ext.result.kind, NoInvoice)
    ELSE OutcomeOfRecord(AssembleFlipkart(ext.headers, ext.built_items,
                                          ext.grand_total.raw))

\* The end of the free-text run on the input
OutcomeFlipkart(inp) == OutcomeOfExtraction(ExtractionFlipkart(inp))

\* C22: a run on the same page texts ends with the same outcome on every
\* day: the same record field for field, invoice_date included, or the
\* same error kind.
C22_Deterministic ==
    (pc = "exit" /\ input.extraction_mode = "text") =>
        \A day \in Todays :
            OutcomeFlipkart([input EXCEPT !.today = day]) = RunEnd(result.kind, written)

\* The record a free-text run has written, and the page it was read from
WrittenFromText == pc = "exit" /\ input.extraction_mode = "text" /\ written # NoInvoice

InvoicePage == _find_product_invoice_page(input.page_texts)

\* C23: no record of the free-text pipeline holds a substituted default
\* in a required header field: "UNREGISTERED", "Unknown" or the day of the
\* run where the page text does not hold that value (no page of the
\* inputs is dated on a day of Todays).
C23_NoSubstitutedDefault ==
    WrittenFromText =>
        /\ written.vendor_gst = UNREGISTERED => Contains(InvoicePage, UNREGISTERED)
        /\ written.customer_name = Unknown => Contains(InvoicePage, Unknown)
        /\ written.state = Unknown => Contains(InvoicePage, Unknown)
        /\ written.invoice_date # <<input.today.year, input.today.month, input.today.day>>

\* The outcome of the earliest stage of run_pipeline_zomato that fails,
\* every stage applied to what the stages before it returned.
AfterConstruction(rec) ==
    IF rec.kind # "ok" THEN rec.kind ELSE validate_invoice(rec.invoice).kind

AfterBuilding(hdrs, total, items) ==
    IF items.kind # "ok" THEN items.kind
    ELSE AfterConstruction(AssembleZomato(hdrs, items.line_items, total))

AfterClassification(hdrs, c, total) ==
    IF total.kind # "ok" THEN total.kind
    ELSE AfterBuilding(hdrs, total, build_line_items_zomato(c))

AfterTable(hdrs, c) == AfterClassification(hdrs, c, detect_grand_total(c))

AfterHeaderExtraction(inp, hdrs) ==
    IF inp.table.kind # "ok" THEN inp.table.kind
    ELSE AfterTable(hdrs, classify_rows(inp.table.df, inp.summary_keywords,
                                        inp.exclude_keywords))

EarliestFailure(inp, h) ==
    IF h.kind # "ok" THEN h.kind ELSE AfterHeaderExtraction(inp, h.headers)

\* The tags classify_rows gives the rows of the decoded table
TagsOfTable(inp) ==
    IF inp.table.kind # "ok" THEN {}
    ELSE {e.row_type : e \in Range(classify_rows(inp.table.df, inp.summary_keywords,
                                                 inp.exclude_keywords))}

Lattice == input.extraction_mode = "lattice"

\* C29: a run of the ruled-table pipeline ends with the outcome of the
\* earliest failing stage in the order header extraction, table
\* extraction, row classification, grand-total detection, line-item
\* building, record construction, validation; a table with neither a
\* TOTAL row nor a LINE_ITEM row ends the run with MissingFieldError, an
\* invalid GSTIN is reported only when the table has a TOTAL row and a
\* LINE_ITEM row; the document is open during the run and closed at its end.
C29_EarliestFailureReported ==
    /\ (Lattice /\ pc = "exit") =>
          /\ result.kind = EarliestFailure(input, HeadersZomato(input.text, input.field_configs))
          /\ result.kind = "GSTValidationError" =>
                {ROW_TYPE_TOTAL, ROW_TYPE_LINE_ITEM} \subseteq TagsOfTable(input)
          /\ (/\ headers # NoHeaders
              /\ input.table.kind = "ok"
              /\ TagsOfTable(input) \cap {ROW_TYPE_TOTAL, ROW_TYPE_LINE_ITEM} = {}) =>
                result.kind = "MissingFieldError"
    /\ Lattice => pdf = (IF pc = "exit" THEN "closed" ELSE "open")

\* A run whose headers were extracted and whose table has neither a TOTAL
\* row nor a LINE_ITEM row has ended with MissingFieldError, the document
\* closed.
C29_Witness ==
    /\ Lattice /\ pc = "exit"
    /\ headers # NoHeaders
    /\ input.table.kind = "ok"
    /\ TagsOfTable(input) = {ROW_TYPE_SUMMARY}
    /\ result.kind = "MissingFieldError"
    /\ pdf = "closed"

\* C20: every run ends with a record written or with one error of the
\* taxonomy; no input makes a run end with an error outside it.
C20_OnlyTaxonomyErrors ==
    pc = "exit" => result.kind \in ErrorTaxonomy \cup {"ok"}

====
